---- MODULE Spec2Model ----
(***************************************************************************)
(* Model of the datatrans webhook path:                                    *)
(*   - WebhookVerifier (src/datatrans/webhook.py): construction from a     *)
(*     hex key and verify_signature over a 't=..,s0=..' header;            *)
(*   - webhook_view (src/datatrans/contrib/django/views.py) and the        *)
(*     DatatransTransaction rows it reads and saves.                       *)
(*                                                                         *)
(* Text is a sequence of one-character strings, so that split, startswith, *)
(* int() and the re-stringification of the timestamp are computed          *)
(* character by character as Python computes them.                         *)
(***************************************************************************)
EXTENDS Integers, Sequences, FiniteSets, TLC

VARIABLES
    now,        \* the wall clock, int(time.time() * 1000)
    verifier,   \* a WebhookVerifier under direct use: its construction outcome and key
    call,       \* the verify_signature call in progress on that verifier, or idle
    settings,   \* django settings: DATATRANS_HMAC_KEY
    db,         \* the DatatransTransaction table: transaction_id -> row or NoRow
    pc,         \* per handler: position inside webhook_view
    req,        \* per handler: the request being handled
    txn,        \* per handler: the local DatatransTransaction instance
    resp,       \* per handler: the HTTP response returned
    frames,     \* per thread: the frame of its verify_signature call on the shared verifier
    record,     \* a DatatransTransaction instance under direct use, and the last update_status on it
    api,        \* per caller, its DatatransClient._request call: arguments, request built, exchange, outcome
    cardcheck   \* the last validate_card_number call: its argument and outcome

vars == << now, verifier, call, settings, db, pc, req, txn, resp, frames, record, api, cardcheck >>

(***************************************************************************)
(* The length of a digest, and the bounds of the model.                    *)
(***************************************************************************)
\* number of hex characters of a SHA-256 digest
DigestLen == 64

\* the clock starts here (milliseconds), advances by TickMs, at most MaxTicks times
ClockStart == 1000000
TickMs == 150500
MaxTicks == 2

(***************************************************************************)
(* Optional values: None is the empty tuple, a present value v is << v >>. *)
(***************************************************************************)
None == << >>

Some(v) == << v >>

The(o) == o[1]

(***************************************************************************)
(* Characters and text.                                                    *)
(***************************************************************************)
Printable ==
    << " ", "!", "\"", "#", "$", "%", "&", "'", "(", ")", "*", "+", ",", "-", ".", "/",
       "0", "1", "2", "3", "4", "5", "6", "7", "8", "9", ":", ";", "<", "=", ">", "?",
       "@", "A", "B", "C", "D", "E", "F", "G", "H", "I", "J", "K", "L", "M", "N", "O",
       "P", "Q", "R", "S", "T", "U", "V", "W", "X", "Y", "Z", "[", "\\", "]", "^", "_",
       "GRAVE", "a", "b", "c", "d", "e", "f", "g", "h", "i", "j", "k", "l", "m", "n", "o",
       "p", "q", "r", "s", "t", "u", "v", "w", "x", "y", "z", "{", "|", "}", "~" >>

\* ord(c) of a printable ASCII character; its UTF-8 encoding is that one byte
\* (Printable[i] is chr(31 + i); "GRAVE" stands at the place of chr(96), which
\* a string literal cannot hold, and occurs in no text of the model)
Ord == [c \in {Printable[i] : i \in 1..95} |-> 31 + CHOOSE i \in 1..95 : Printable[i] = c]

Digits == << "0", "1", "2", "3", "4", "5", "6", "7", "8", "9" >>

\* two characters outside ASCII, written as tokens: ARABIC-INDIC DIGIT ZERO,
\* a decimal digit (category Nd) of value 0, and SUPERSCRIPT TWO, a digit
\* (category No) that is no decimal digit
ArabicZero == "U+0660"

SuperscriptTwo == "U+00B2"

\* the value of a decimal digit, as int() reads it: the ASCII digits and the
\* decimal digits of other scripts
DigitVal ==
    [c \in {Digits[i] : i \in 1..10} \cup { ArabicZero } |->
        IF c = ArabicZero THEN 0 ELSE (CHOOSE i \in 1..10 : Digits[i] = c) - 1]

IsDigit(c) == c \in DOMAIN DigitVal

LowerHex == << "0", "1", "2", "3", "4", "5", "6", "7", "8", "9", "a", "b", "c", "d", "e", "f" >>

UpperHex == << "0", "1", "2", "3", "4", "5", "6", "7", "8", "9", "A", "B", "C", "D", "E", "F" >>

HexVal == [c \in {LowerHex[i] : i \in 1..16} \cup {UpperHex[i] : i \in 1..16} |->
              (CHOOSE i \in 1..16 : LowerHex[i] = c \/ UpperHex[i] = c) - 1]

IsHexChar(c) == c \in DOMAIN HexVal

\* a character outside ASCII (e with acute accent), written as a token
NonAscii == "U+00E9"

\* str.isascii (the text is taken once, then looked at character by character)
IsAscii(text) == \A t \in { text } : \A i \in 1..Len(t) : t[i] \in DOMAIN Ord

\* the UTF-8 bytes of one character
Utf8(c) ==
    IF c \in DOMAIN Ord THEN << Ord[c] >>
    ELSE IF c = NonAscii THEN << 195, 169 >>
    ELSE IF c = SuperscriptTwo THEN << 194, 178 >>
    ELSE << 217, 160 >>

\* str.startswith
StartsWith(s, prefix) ==
    /\ Len(s) >= Len(prefix)
    /\ SubSeq(s, 1, Len(prefix)) = prefix

\* s[k:] for k >= 0
DropFirst(s, k) == SubSeq(s, k + 1, Len(s))

\* the index of the k-th separator of s, the separators being at the indices
\* cuts; 0 before the first part and Len(s) + 1 after the last one
Cut(s, cuts, k) ==
    IF k = 0 THEN 0
    ELSE IF k = Cardinality(cuts) + 1 THEN Len(s) + 1
    ELSE CHOOSE i \in cuts : Cardinality({ j \in cuts : j <= i }) = k

SplitAt(s, cuts) ==
    [k \in 1..(Cardinality(cuts) + 1) |-> SubSeq(s, Cut(s, cuts, k - 1) + 1, Cut(s, cuts, k) - 1)]

\* str.split(sep) for a one-character separator: always at least one part
Split(s, sep) ==
    CHOOSE parts \in { SplitAt(s, cuts) : cuts \in { { i \in 1..Len(s) : s[i] = sep } } } : TRUE

RECURSIVE Join(_, _)
\* sep.join(parts)
Join(parts, sep) ==
    IF Len(parts) = 0 THEN << >>
    ELSE IF Len(parts) = 1 THEN parts[1]
    ELSE parts[1] \o << sep >> \o Join(Tail(parts), sep)

RECURSIVE StripLeft(_)
StripLeft(s) == IF Len(s) > 0 /\ s[1] = " " THEN StripLeft(Tail(s)) ELSE s

RECURSIVE StripRight(_)
StripRight(s) ==
    IF Len(s) > 0 /\ s[Len(s)] = " " THEN StripRight(SubSeq(s, 1, Len(s) - 1)) ELSE s

\* str.strip() for the blank
Strip(s) == StripLeft(StripRight(s))

(***************************************************************************)
(* int(text): optional blanks around, an optional sign, then decimal       *)
(* digits in which single underscores may separate digits. Anything else   *)
(* raises ValueError.                                                      *)
(***************************************************************************)
IntBodyOk(b) ==
    /\ Len(b) > 0
    /\ \A i \in 1..Len(b) : IsDigit(b[i]) \/ b[i] = "_"
    /\ b[1] # "_"
    /\ b[Len(b)] # "_"
    /\ \A i \in 1..(Len(b) - 1) : ~(b[i] = "_" /\ b[i + 1] = "_")

RECURSIVE IntBodyVal(_, _)
IntBodyVal(b, acc) ==
    IF Len(b) = 0 THEN acc
    ELSE IF b[1] = "_" THEN IntBodyVal(Tail(b), acc)
    ELSE IntBodyVal(Tail(b), acc * 10 + DigitVal[b[1]])

PyInt(text) ==
    LET s == Strip(text)
        signed == Len(s) > 0 /\ s[1] \in {"+", "-"}
        body == IF signed THEN Tail(s) ELSE s
    IN  IF IntBodyOk(body)
        THEN [ok |-> TRUE,
              val |-> IF signed /\ s[1] = "-" THEN 0 - IntBodyVal(body, 0)
                      ELSE IntBodyVal(body, 0)]
        ELSE [ok |-> FALSE, val |-> 0]

RECURSIVE NatStr(_)
NatStr(n) == IF n < 10 THEN << Digits[n + 1] >> ELSE Append(NatStr(n \div 10), Digits[(n % 10) + 1])

\* f"{n}" of an int: its canonical decimal text
PyStr(n) == IF n < 0 THEN << "-" >> \o NatStr(0 - n) ELSE NatStr(n)

(***************************************************************************)
(* bytes.fromhex(text): pairs of hex digits, blanks allowed between pairs. *)
(***************************************************************************)
RECURSIVE FromHexAcc(_, _)
FromHexAcc(s, acc) ==
    IF Len(s) = 0 THEN [ok |-> TRUE, bytes |-> acc]
    ELSE IF s[1] = " " THEN FromHexAcc(Tail(s), acc)
    ELSE IF Len(s) >= 2 /\ IsHexChar(s[1]) /\ IsHexChar(s[2])
         THEN FromHexAcc(DropFirst(s, 2), Append(acc, 16 * HexVal[s[1]] + HexVal[s[2]]))
    ELSE [ok |-> FALSE, bytes |-> << >>]

FromHex(text) == FromHexAcc(text, << >>)

RECURSIVE FromHexErrorAt(_, _)
\* the position the ValueError of bytes.fromhex names: in a text that is not
\* ASCII the index of its first character outside ASCII, otherwise the index
\* of the first character that is no hex digit where one is needed (the end
\* of the text when its last pair lacks a digit); s is the text from index i on
FromHexErrorAt(s, i) ==
    IF ~IsAscii(s)
    THEN i + (CHOOSE k \in 1..Len(s) :
                 /\ ~(s[k] \in DOMAIN Ord)
                 /\ \A j \in 1..(k - 1) : s[j] \in DOMAIN Ord) - 1
    ELSE IF Len(s) = 0 THEN i
    ELSE IF s[1] = " " THEN FromHexErrorAt(Tail(s), i + 1)
    ELSE IF ~IsHexChar(s[1]) THEN i
    ELSE IF Len(s) < 2 \/ ~IsHexChar(s[2]) THEN i + 1
    ELSE FromHexErrorAt(DropFirst(s, 2), i + 2)

(***************************************************************************)
(* str.encode("utf-8")                                                     *)
(***************************************************************************)
RECURSIVE EncodeFrom(_, _)
EncodeFrom(text, i) == IF i > Len(text) THEN << >> ELSE Utf8(text[i]) \o EncodeFrom(text, i + 1)

\* the bytes of the text (taken once)
Encode(text) ==
    CHOOSE bytes \in { IF IsAscii(t) THEN [i \in 1..Len(t) |-> Ord[t[i]]] ELSE EncodeFrom(t, 1) :
                        t \in { text } } : TRUE

(***************************************************************************)
(* hashlib.sha256: SHA-256 (FIPS 180-4), computed as the library computes  *)
(* it. A word of 32 bits is the pair << high half, low half >> of its two  *)
(* halves of 16 bits, so that every intermediate number stays below 2^31.  *)
(* Where a value is used more than once it is bound once, as the one       *)
(* element of a set, and so computed once.                                 *)
(***************************************************************************)
\* a xor b, bit by bit
RECURSIVE XorBits(_, _)
XorBits(a, b) ==
    IF a = 0 THEN b ELSE IF b = 0 THEN a
    ELSE ((a + b) % 2) + 2 * XorBits(a \div 2, b \div 2)

\* XorTable[a][b] = a xor b for two bytes
XorTable == [a \in 0..255 |-> [b \in 0..255 |-> XorBits(a, b)]]

\* a xor b for two halves
Xor16(a, b) ==
    CHOOSE r \in { 256 * t[x \div 256][y \div 256] + t[x % 256][y % 256] :
                      x \in { a }, y \in { b }, t \in { XorTable } } : TRUE

\* a and b for two halves: a + b = (a xor b) + 2 * (a and b)
And16(a, b) == CHOOSE r \in { (x + y - Xor16(x, y)) \div 2 : x \in { a }, y \in { b } } : TRUE

\* x xor y for two words
XorWord(x, y) ==
    CHOOSE r \in { << >> \o [h \in 1..2 |-> Xor16(u[h], v[h])] : u \in { x }, v \in { y } } : TRUE

\* x rotated right by n bits, 0 < n < 32: the halves change places from 16 on
Rotr(x, n) ==
    CHOOSE r \in { << (p[1] \div p[3]) + (p[2] % p[3]) * p[4],
                      (p[2] \div p[3]) + (p[1] % p[3]) * p[4] >> :
                      p \in { IF n < 16 THEN << x[1], x[2], 2 ^ n, 2 ^ (16 - n) >>
                              ELSE << x[2], x[1], 2 ^ (n - 16), 2 ^ (32 - n) >> } } : TRUE

\* x shifted right by n bits, 0 < n < 16
Shr(x, n) ==
    CHOOSE r \in { << p[1] \div p[3], (p[2] \div p[3]) + (p[1] % p[3]) * p[4] >> :
                      p \in { << x[1], x[2], 2 ^ n, 2 ^ (16 - n) >> } } : TRUE

\* x + y modulo 2^32
Add(x, y) ==
    CHOOSE r \in { << (p[1][1] + p[2][1] + ((p[1][2] + p[2][2]) \div 65536)) % 65536,
                      (p[1][2] + p[2][2]) % 65536 >> : p \in { << x, y >> } } : TRUE

\* the functions of FIPS 180-4, section 4.1.2
BigSigma0(x) == XorWord(XorWord(Rotr(x, 2), Rotr(x, 13)), Rotr(x, 22))

BigSigma1(x) == XorWord(XorWord(Rotr(x, 6), Rotr(x, 11)), Rotr(x, 25))

SmallSigma0(x) == XorWord(XorWord(Rotr(x, 7), Rotr(x, 18)), Shr(x, 3))

SmallSigma1(x) == XorWord(XorWord(Rotr(x, 17), Rotr(x, 19)), Shr(x, 10))

\* (x and y) xor (not x and z): the two terms have no bit in common
Ch(x, y, z) == << >> \o [h \in 1..2 |-> And16(x[h], y[h]) + And16(65535 - x[h], z[h])]

\* (x and y) xor (x and z) xor (y and z) = (x and y) + (z and (x xor y))
Maj(x, y, z) == << >> \o [h \in 1..2 |-> And16(x[h], y[h]) + And16(z[h], Xor16(x[h], y[h]))]

\* the initial hash value and the round constants of SHA-256
InitialHash ==
    << << 27145, 58983 >>, << 47975, 44677 >>, << 15470, 62322 >>, << 42319, 62778 >>,
       << 20750, 21119 >>, << 39685, 26764 >>, << 8067, 55723 >>, << 23520, 52505 >> >>

RoundConstants ==
    << << 17034, 12184 >>, << 28983, 17553 >>, << 46528, 64463 >>, << 59829, 56229 >>,
       << 14678, 49755 >>, << 23025, 4593 >>, << 37439, 33444 >>, << 43804, 24277 >>,
       << 55303, 43672 >>, << 4739, 23297 >>, << 9265, 34238 >>, << 21772, 32195 >>,
       << 29374, 23924 >>, << 32990, 45566 >>, << 39900, 1703 >>, << 49563, 61812 >>,
       << 58523, 27073 >>, << 61374, 18310 >>, << 4033, 40390 >>, << 9228, 41420 >>,
       << 11753, 11375 >>, << 19060, 33962 >>, << 23728, 43484 >>, << 30457, 35034 >>,
       << 38974, 20818 >>, << 43057, 50797 >>, << 45059, 10184 >>, << 48985, 32711 >>,
       << 50912, 3059 >>, << 54695, 37191 >>, << 1738, 25425 >>, << 5161, 10599 >>,
       << 10167, 2693 >>, << 11803, 8504 >>, << 19756, 28156 >>, << 21304, 3347 >>,
       << 25866, 29524 >>, << 30314, 2747 >>, << 33218, 51502 >>, << 37490, 11397 >>,
       << 41663, 59553 >>, << 43034, 26187 >>, << 49739, 35696 >>, << 51052, 20899 >>,
       << 53650, 59417 >>, << 54937, 1572 >>, << 62478, 13701 >>, << 4202, 41072 >>,
       << 6564, 49430 >>, << 7735, 27656 >>, << 10056, 30540 >>, << 13488, 48309 >>,
       << 14620, 3251 >>, << 20184, 43594 >>, << 23452, 51791 >>, << 26670, 28659 >>,
       << 29839, 33518 >>, << 30885, 25455 >>, << 33992, 30740 >>, << 36039, 520 >>,
       << 37054, 65530 >>, << 42064, 27883 >>, << 48889, 41975 >>, << 50801, 30962 >> >>

\* the next word of the message schedule w
NextWord(w) ==
    CHOOSE r \in { Add(Add(Add(SmallSigma1(u[Len(u) - 1]), u[Len(u) - 6]),
                           SmallSigma0(u[Len(u) - 14])), u[Len(u) - 15]) : u \in { w } } : TRUE

\* w with count more words (one half of them after the other, which keeps
\* the evaluation shallow)
RECURSIVE Extended(_, _)
Extended(w, count) ==
    IF count = 1 THEN CHOOSE r \in { Append(u, NextWord(u)) : u \in { w } } : TRUE
    ELSE CHOOSE r \in { Extended(v, c - (c \div 2)) :
                           v \in { Extended(w, count \div 2) }, c \in { count } } : TRUE

\* the message schedule: the 16 words of the block, then 48 more
Schedule(block) == Extended(block, 48)

\* one round on the working variables st = << a, b, c, d, e, f, g, h >> with
\* the round constant k and the word w of the schedule
Round(st, k, w) ==
    CHOOSE r \in { << Add(p[2], p[3]), p[1][1], p[1][2], p[1][3],
                      Add(p[1][4], p[2]), p[1][5], p[1][6], p[1][7] >> :
                      p \in { << v, Add(Add(Add(Add(v[8], BigSigma1(v[5])), Ch(v[5], v[6], v[7])), k), w),
                                 Add(BigSigma0(v[1]), Maj(v[1], v[2], v[3])) >> : v \in { st } } } : TRUE

\* the rounds lo..hi with the schedule w: 16 at a time, each on the result
\* of the one before (which keeps the evaluation shallow)
RECURSIVE Rounds(_, _, _, _)
Rounds(st, w, lo, hi) ==
    IF hi - lo >= 16
    THEN CHOOSE r \in { Rounds(v, w, lo + 16, hi) : v \in { Rounds(st, w, lo, lo + 15) } } : TRUE
    ELSE LET after[i \in (lo - 1)..hi] ==
                 IF i < lo THEN st ELSE Round(after[i - 1], RoundConstants[i], w[i])
         IN  after[hi]

\* the hash value after the block of 16 words
Compress(hash, block) ==
    CHOOSE r \in { << >> \o [i \in 1..8 |-> Add(p[1][i], p[2][i])] :
                      p \in { << g, Rounds(g, s, 1, 64) >> : g \in { hash }, s \in { Schedule(block) } } } : TRUE

\* the padding of FIPS 180-4, section 5.1.1, for a message of n bytes: the
\* byte 128, zero bytes up to 56 modulo 64, and the bit length in 8 bytes
\* (the messages stay below 2^28 bytes)
Padding(n) ==
    << 128 >> \o [i \in 1..((119 - (n % 64)) % 64) |-> 0]
        \o << 0, 0, 0, 0, (n * 8) \div 16777216, ((n * 8) \div 65536) % 256,
              ((n * 8) \div 256) % 256, (n * 8) % 256 >>

\* the i-th block of 16 words of the bytes
BlockOf(bytes, i) ==
    << >> \o [j \in 1..16 |-> << 256 * bytes[64 * (i - 1) + 4 * j - 3] + bytes[64 * (i - 1) + 4 * j - 2],
                                 256 * bytes[64 * (i - 1) + 4 * j - 1] + bytes[64 * (i - 1) + 4 * j] >>]

\* the hash value after the blocks of the bytes from the i-th on
RECURSIVE HashFrom(_, _, _)
HashFrom(hash, bytes, i) ==
    IF 64 * i > Len(bytes) THEN hash
    ELSE CHOOSE r \in { HashFrom(h, b, i + 1) :
                           h \in { Compress(hash, BlockOf(bytes, i)) }, b \in { bytes } } : TRUE

\* a hash object that has taken done bytes (a multiple of 64) and holds the
\* hash value hash, updated with message and finalised: digest(), 32 bytes
Finish(hash, done, message) ==
    CHOOSE d \in { << >> \o [i \in 1..32 |->
                               IF i % 2 = 1 THEN h[(i + 3) \div 4][((i - 1) % 4) \div 2 + 1] \div 256
                               ELSE h[(i + 3) \div 4][((i - 1) % 4) \div 2 + 1] % 256] :
                      h \in { HashFrom(hash, p, 1) :
                                 p \in { m \o Padding(done + Len(m)) : m \in { message } } } } : TRUE

\* hashlib.sha256(message).digest()
Sha256(message) == Finish(InitialHash, 0, message)

(***************************************************************************)
(* hmac.new(key, message, hashlib.sha256): HMAC (RFC 2104),                *)
(* H((K xor opad) || H((K xor ipad) || message)).                          *)
(***************************************************************************)
\* the key as a block of 64 bytes: hashed when longer, then filled with zeros
KeyBlock(key) ==
    CHOOSE b \in { k \o [i \in 1..(64 - Len(k)) |-> 0] :
                      k \in { IF Len(key) > 64 THEN Sha256(key) ELSE key } } : TRUE

\* ipad and opad
Pads == << 54, 92 >>

\* the block with every byte xor pad
Padded(block, pad) ==
    CHOOSE r \in { << >> \o [i \in 1..64 |-> t[b[i]][pad]] :
                      b \in { block }, t \in { XorTable } } : TRUE

\* the inner and the outer hash object of an HMAC object once it is made:
\* each has taken the key block, xor ipad and xor opad
KeyStates(key) ==
    CHOOSE st \in { << >> \o [i \in 1..2 |-> Compress(InitialHash, BlockOf(Padded(b, Pads[i]), 1))] :
                       b \in { KeyBlock(key) } } : TRUE

\* HMAC.digest() from the i-th object on: the inner object (1) takes the
\* message, the outer one (2) the digest of the inner
RECURSIVE DigestFrom(_, _, _)
DigestFrom(states, message, i) ==
    IF i > 2 THEN message
    ELSE CHOOSE d \in { DigestFrom(st, m, i + 1) :
                           m \in { Finish(states[i], 64, message) }, st \in { states } } : TRUE

HmacDigest(states, message) == DigestFrom(states, message, 1)

\* bytes.hex()
HexDigest(bytes) ==
    CHOOSE text \in { << >> \o [i \in 1..(2 * Len(b)) |->
                                  IF i % 2 = 1 THEN LowerHex[(b[(i + 1) \div 2] \div 16) + 1]
                                  ELSE LowerHex[(b[(i + 1) \div 2] % 16) + 1]] : b \in { bytes } } : TRUE

(***************************************************************************)
(* Outcomes of a call: a returned value or a raised exception.             *)
(***************************************************************************)
Returned(v) == [kind |-> "return", exc |-> "", value |-> v]

Raised(exc, msg) == [kind |-> "raise", exc |-> exc, value |-> msg]

RECURSIVE StrOf(_)
\* the characters of a text as one string
StrOf(text) == IF Len(text) = 0 THEN "" ELSE text[1] \o StrOf(Tail(text))

RECURSIVE Escaped(_, _)
\* text with each backslash, and each occurrence of quote, behind a backslash
Escaped(text, quote) ==
    IF Len(text) = 0 THEN << >>
    ELSE (IF text[1] = "\\" \/ text[1] = quote THEN << "\\", text[1] >> ELSE << text[1] >>)
         \o Escaped(Tail(text), quote)

\* repr() of a str of printable characters: in single quotes, in double
\* quotes when it holds a single quote and no double quote
Repr(text) ==
    LET has(c) == \E i \in 1..Len(text) : text[i] = c
    IN  IF has("'") /\ ~has("\"") THEN << "\"" >> \o Escaped(text, "\"") \o << "\"" >>
        ELSE << "'" >> \o Escaped(text, "'") \o << "'" >>

\* the ValueError of int(text)
IntError(text) ==
    Raised("ValueError", "invalid literal for int() with base 10: " \o StrOf(Repr(text)))

WebhookVerificationError(msg) == Raised("WebhookVerificationError", msg)

\* the four messages of verify_signature
MsgMalformed == "Invalid signature header format"

MsgMissing == "Missing timestamp or signature"

MsgTooOld == "Signature timestamp too old"

MsgMismatch == "Signature mismatch"

(***************************************************************************)
(* WebhookVerifier.__init__: self.hmac_key = bytes.fromhex(hmac_key).      *)
(***************************************************************************)
NewVerifier(hmac_key) ==
    LET r == FromHex(hmac_key)
    IN  IF r.ok
        THEN [state |-> "constructed", key_text |-> hmac_key, hmac_key |-> r.bytes, raised |-> ""]
        ELSE [state |-> "failed", key_text |-> hmac_key, hmac_key |-> << >>, raised |-> "ValueError"]

(***************************************************************************)
(* Inputs of the direct use of a verifier.                                 *)
(***************************************************************************)
\* keys given to WebhookVerifier(...): "6168", "61 68" and "", and, not hex,
\* "zz", "616" and "z" followed by a character outside ASCII
KeyTexts ==
    { << "6", "1", "6", "8" >>, << "6", "1", " ", "6", "8" >>, << >>,
      << "z", "z" >>, << "6", "1", "6" >>, << "z", NonAscii >> }

(***************************************************************************)
(* JSON values, as json.loads gives them: None, str, int, list, dict. A    *)
(* dict is a function from its keys.                                       *)
(***************************************************************************)
JNull == [t |-> "null", v |-> 0]

JStr(s) == [t |-> "str", v |-> s]

JNum(n) == [t |-> "num", v |-> n]

JArr(items) == [t |-> "arr", v |-> items]

JObj(members) == [t |-> "obj", v |-> members]

\* json.loads raised JSONDecodeError
JInvalid == [t |-> "invalid", v |-> 0]

\* Python's "not x"
Falsy(x) ==
    \/ x.t = "null"
    \/ x.t = "str" /\ x.v = ""
    \/ x.t = "num" /\ x.v = 0
    \/ x.t = "arr" /\ Len(x.v) = 0
    \/ x.t = "obj" /\ DOMAIN x.v = {}

\* "key in d" and d.get(key, default) of a dict
HasKey(d, key) == key \in DOMAIN d.v

DictGet(d, key, default) == IF HasKey(d, key) THEN d.v[key] ELSE default

(***************************************************************************)
(* The request bodies of the model, each with the value json.loads gives   *)
(* for its text.                                                           *)
(***************************************************************************)
\* {"transactionId":"1"}
BodyTxnOnly ==
    << "{", "\"", "t", "r", "a", "n", "s", "a", "c", "t", "i", "o", "n", "I", "d", "\"",
       ":", "\"", "1", "\"", "}" >>

JsonTxnOnly == JObj([transactionId |-> JStr("1")])

\* {"transactionId":"1","status":"authorized","amount":2500,"currency":"EUR","paymentMethod":"VIS","card":{"masked":"424242xxxxxx4242"}}
BodyAuthorized ==
    << "{", "\"", "t", "r", "a", "n", "s", "a", "c", "t", "i", "o", "n", "I", "d", "\"",
       ":", "\"", "1", "\"", ",", "\"", "s", "t", "a", "t", "u", "s", "\"", ":", "\"", "a",
       "u", "t", "h", "o", "r", "i", "z", "e", "d", "\"", ",", "\"", "a", "m", "o", "u",
       "n", "t", "\"", ":", "2", "5", "0", "0", ",", "\"", "c", "u", "r", "r", "e", "n",
       "c", "y", "\"", ":", "\"", "E", "U", "R", "\"", ",", "\"", "p", "a", "y", "m", "e",
       "n", "t", "M", "e", "t", "h", "o", "d", "\"", ":", "\"", "V", "I", "S", "\"", ",",
       "\"", "c", "a", "r", "d", "\"", ":", "{", "\"", "m", "a", "s", "k", "e", "d", "\"",
       ":", "\"", "4", "2", "4", "2", "4", "2", "x", "x", "x", "x", "x", "x", "4", "2",
       "4", "2", "\"", "}", "}" >>

JsonAuthorized == JObj([transactionId |-> JStr("1"), status |-> JStr("authorized"), amount |-> JNum(2500), currency |-> JStr("EUR"), paymentMethod |-> JStr("VIS"), card |-> JObj([masked |-> JStr("424242xxxxxx4242")])])

\* {"transactionId":"1","status":"settled"}
BodySettled ==
    << "{", "\"", "t", "r", "a", "n", "s", "a", "c", "t", "i", "o", "n", "I", "d", "\"",
       ":", "\"", "1", "\"", ",", "\"", "s", "t", "a", "t", "u", "s", "\"", ":", "\"", "s",
       "e", "t", "t", "l", "e", "d", "\"", "}" >>

JsonSettled == JObj([transactionId |-> JStr("1"), status |-> JStr("settled")])

\* {"transactionId":"2","status":"authorized","amount":2500,"currency":"EUR"}
BodyNewTxn ==
    << "{", "\"", "t", "r", "a", "n", "s", "a", "c", "t", "i", "o", "n", "I", "d", "\"",
       ":", "\"", "2", "\"", ",", "\"", "s", "t", "a", "t", "u", "s", "\"", ":", "\"", "a",
       "u", "t", "h", "o", "r", "i", "z", "e", "d", "\"", ",", "\"", "a", "m", "o", "u",
       "n", "t", "\"", ":", "2", "5", "0", "0", ",", "\"", "c", "u", "r", "r", "e", "n",
       "c", "y", "\"", ":", "\"", "E", "U", "R", "\"", "}" >>

JsonNewTxn == JObj([transactionId |-> JStr("2"), status |-> JStr("authorized"), amount |-> JNum(2500), currency |-> JStr("EUR")])

\* {"transactionId":"2"}
BodyNewTxnNoStatus ==
    << "{", "\"", "t", "r", "a", "n", "s", "a", "c", "t", "i", "o", "n", "I", "d", "\"",
       ":", "\"", "2", "\"", "}" >>

JsonNewTxnNoStatus == JObj([transactionId |-> JStr("2")])

\* {"status":"settled"}
BodyNoTxnId ==
    << "{", "\"", "s", "t", "a", "t", "u", "s", "\"", ":", "\"", "s", "e", "t", "t", "l",
       "e", "d", "\"", "}" >>

JsonNoTxnId == JObj([status |-> JStr("settled")])

\* {"transactionId":"1","status":""}
BodyEmptyStatus ==
    << "{", "\"", "t", "r", "a", "n", "s", "a", "c", "t", "i", "o", "n", "I", "d", "\"",
       ":", "\"", "1", "\"", ",", "\"", "s", "t", "a", "t", "u", "s", "\"", ":", "\"",
       "\"", "}" >>

JsonEmptyStatus == JObj([transactionId |-> JStr("1"), status |-> JStr("")])

\* {"transactionId":"1","status":"settled","amount":null}
BodyNullAmount ==
    << "{", "\"", "t", "r", "a", "n", "s", "a", "c", "t", "i", "o", "n", "I", "d", "\"",
       ":", "\"", "1", "\"", ",", "\"", "s", "t", "a", "t", "u", "s", "\"", ":", "\"", "s",
       "e", "t", "t", "l", "e", "d", "\"", ",", "\"", "a", "m", "o", "u", "n", "t", "\"",
       ":", "n", "u", "l", "l", "}" >>

JsonNullAmount == JObj([transactionId |-> JStr("1"), status |-> JStr("settled"), amount |-> JNull])

\* {"transactionId":"1","status":"settled","card":"x"}
BodyCardNotObject ==
    << "{", "\"", "t", "r", "a", "n", "s", "a", "c", "t", "i", "o", "n", "I", "d", "\"",
       ":", "\"", "1", "\"", ",", "\"", "s", "t", "a", "t", "u", "s", "\"", ":", "\"", "s",
       "e", "t", "t", "l", "e", "d", "\"", ",", "\"", "c", "a", "r", "d", "\"", ":", "\"",
       "x", "\"", "}" >>

JsonCardNotObject == JObj([transactionId |-> JStr("1"), status |-> JStr("settled"), card |-> JStr("x")])

\* []
BodyArray ==
    << "[", "]" >>

JsonArray == JArr(<< >>)

\* {
BodyBroken ==
    << "{" >>

JsonBroken == JInvalid

BodyTable ==
    << [text |-> BodyTxnOnly, json |-> JsonTxnOnly],
       [text |-> BodyAuthorized, json |-> JsonAuthorized],
       [text |-> BodySettled, json |-> JsonSettled],
       [text |-> BodyNewTxn, json |-> JsonNewTxn],
       [text |-> BodyNewTxnNoStatus, json |-> JsonNewTxnNoStatus],
       [text |-> BodyNoTxnId, json |-> JsonNoTxnId],
       [text |-> BodyEmptyStatus, json |-> JsonEmptyStatus],
       [text |-> BodyNullAmount, json |-> JsonNullAmount],
       [text |-> BodyCardNotObject, json |-> JsonCardNotObject],
       [text |-> BodyArray, json |-> JsonArray],
       [text |-> BodyBroken, json |-> JsonBroken] >>

\* json.loads(text): the value of a text of the table; any other text of the
\* model (the empty body) is no JSON document
JsonLoads(text) ==
    IF \E i \in 1..Len(BodyTable) : BodyTable[i].text = text
    THEN BodyTable[CHOOSE i \in 1..Len(BodyTable) : BodyTable[i].text = text].json
    ELSE JInvalid

\* payloads handed to verify_signature directly
Payloads == { BodyTxnOnly, << >> }

\* max_age_seconds of a direct call: the default, no tolerance, a window as
\* wide as the clock reading and one wider
DefaultMaxAge == 300
WideMaxAge == 2000

\* the window that reaches back exactly to timestamp 0 at the first clock reading
EpochMaxAge == ClockStart \div 1000

MaxAges == { 0, DefaultMaxAge, EpochMaxAge, WideMaxAge }

\* timestamps around the two edges of the window, the clock itself, and 0
TsValues(current_time, max_age_seconds) ==
    LET w == max_age_seconds * 1000
    IN  { 0, current_time - w - 1, current_time - w, current_time,
          current_time + w, current_time + w + 1 }

\* a decimal text with ARABIC-INDIC DIGIT ZERO for each 0
ArabicSpelling(text) == [i \in 1..Len(text) |-> IF text[i] = "0" THEN ArabicZero ELSE text[i]]

\* spellings of the clock reading, and of 0, that int() accepts and str()
\* does not give back
NonCanonical(current_time) ==
    { << "0" >> \o PyStr(current_time), << "+" >> \o PyStr(current_time),
      << " " >> \o PyStr(current_time), << "0", "0" >>,
      ArabicSpelling(PyStr(current_time)), << ArabicZero >> }

\* texts that are no integer, and one with an underscore that is
NonNumeric == { << >>, << "a", "b", "c" >> }

\* texts put after "t="
TsTexts(current_time, max_age_seconds) ==
    { PyStr(n) : n \in TsValues(current_time, max_age_seconds) }
    \cup NonCanonical(current_time) \cup NonNumeric \cup { << "1", "_", "0" >> }

\* one character of a text replaced
Replace(text, i, c) == [text EXCEPT ![i] = c]

FlipChars == { "0", "f", NonAscii }

\* at its first, middle and last character
Flips(sig) ==
    { Replace(sig, i, c) : i \in { 1, (Len(sig) + 1) \div 2, Len(sig) }, c \in FlipChars } \ { sig }

\* str.upper() of hex text
Upper(text) == [i \in 1..Len(text) |-> UpperHex[HexVal[text[i]] + 1]]

\* the key b"\x01\x02", which no verifier of the model holds
OtherKey == << 1, 2 >>

(***************************************************************************)
(* Inputs of webhook_view that are signed.                                 *)
(***************************************************************************)
\* the key of the dashboard, "6168" (the bytes "ah")
ConfiguredKey == << "6", "1", "6", "8" >>

ViewBodies == { BodyTable[i].text : i \in 1..Len(BodyTable) } \cup { << >> }

\* the key the sender signs with: the bytes of the dashboard key
SenderKey == FromHex(ConfiguredKey).bytes

(***************************************************************************)
(* hmac.new(key, message, hashlib.sha256).hexdigest(). The keys of the     *)
(* model and the messages signed or checked under them are few and come up *)
(* in many states: the state of the HMAC object of each key, and the       *)
(* digest of each such message, are computed once and looked up; for any   *)
(* other key or message the digest is computed on the spot.                *)
(***************************************************************************)
\* the values time.time() takes
ClockReadings == { ClockStart + i * TickMs : i \in 0..MaxTicks }

\* the keys of the verifiers and of the senders
DigestKeys ==
    { NewVerifier(k).hmac_key : k \in { t \in KeyTexts : NewVerifier(t).state = "constructed" } }
    \cup { SenderKey, OtherKey }

\* a timestamp text as sent, and as f"{timestamp}" gives it back
Spellings(tsText) == { tsText } \cup { PyStr(r.val) : r \in { q \in { PyInt(tsText) } : q.ok } }

\* the messages of the direct calls: a timestamp text before a payload
DirectMessages ==
    { Encode(s \o payload) :
        s \in UNION { Spellings(t) : t \in UNION { TsTexts(c, a) : c \in ClockReadings, a \in MaxAges } },
        payload \in Payloads }

\* the messages of the requests: a timestamp before a body
ViewMessages ==
    { Encode(PyStr(ts) \o body) :
        ts \in UNION { TsValues(c, DefaultMaxAge) : c \in ClockReadings }, body \in ViewBodies }

\* the pairs of a key and a message whose digest is kept
DigestInputs ==
    { << k, m >> : k \in DigestKeys, m \in DirectMessages }
    \cup { << k, m >> : k \in { SenderKey, OtherKey }, m \in ViewMessages }

\* the objects of a key: looked up when they are kept and kept is asked
\* for, made otherwise
RECURSIVE StatesOf(_, _)
HmacStates == [k \in DigestKeys |-> StatesOf(k, FALSE)]

StatesOf(key, kept) ==
    IF ~kept THEN KeyStates(key)
    ELSE CHOOSE st \in { IF k \in DOMAIN t THEN t[k] ELSE StatesOf(k, FALSE) :
                            k \in { key }, t \in { HmacStates } } : TRUE

\* hmac.new(key, message, hashlib.sha256).digest()
HmacSha256(key, message) == HmacDigest(StatesOf(key, TRUE), message)

\* the digest as text: looked up when it is kept and kept is asked for,
\* computed otherwise
RECURSIVE DigestOf(_, _)
Digests == [p \in DigestInputs |-> DigestOf(p, FALSE)]

DigestOf(p, kept) ==
    IF ~kept THEN HexDigest(HmacSha256(p[1], p[2]))
    ELSE CHOOSE digest \in { IF q \in DOMAIN t THEN t[q] ELSE DigestOf(q, FALSE) :
                                q \in { p }, t \in { Digests } } : TRUE

HmacHexDigest(key, message) == DigestOf(<< key, message >>, TRUE)

(***************************************************************************)
(* WebhookVerifier._calculate_signature                                    *)
(***************************************************************************)
CalculateSignature(hmac_key, timestamp, payload) ==
    HmacHexDigest(hmac_key, Encode(PyStr(timestamp) \o payload))

\* the same for an optional timestamp: f"{timestamp}" of None is 'None'
CalculateSignatureOpt(hmac_key, timestamp, payload) ==
    IF timestamp = None
    THEN HmacHexDigest(hmac_key, Encode(<< "N", "o", "n", "e" >> \o payload))
    ELSE CalculateSignature(hmac_key, The(timestamp), payload)

(***************************************************************************)
(* hmac.compare_digest on two str: TypeError unless both are ASCII,        *)
(* otherwise their equality (in time independent of the contents).         *)
(***************************************************************************)
CompareDigest(a, b) ==
    IF IsAscii(a) /\ IsAscii(b) THEN Returned(a = b)
    ELSE Raised("TypeError", "comparing strings with non-ASCII characters is not supported")

(***************************************************************************)
(* WebhookVerifier.verify_signature, step by step.                         *)
(***************************************************************************)
PrefixT == << "t", "=" >>

PrefixS0 == << "s", "0", "=" >>

\* (faulty variant) the part count checked as "more than two"
BadPartCountOnlyMore(parts) == Len(parts) > 2

\* (faulty variant) the part count checked as "fewer than two"
BadPartCountOnlyFewer(parts) == Len(parts) < 2

\* len(parts) != 2
BadPartCount(parts) == Len(parts) # 2

\* one turn of "for part in parts": st holds timestamp, received_signature,
\* whether int() has raised and the text it raised on
ScanPart(st, part) ==
    IF st.raised THEN st
    ELSE IF StartsWith(part, PrefixT)
         THEN LET r == PyInt(DropFirst(part, 2))
              IN  IF r.ok THEN [st EXCEPT !.timestamp = Some(r.val)]
                  ELSE [st EXCEPT !.raised = TRUE, !.literal = DropFirst(part, 2)]
    ELSE IF StartsWith(part, PrefixS0)
         THEN [st EXCEPT !.received_signature = Some(DropFirst(part, 3))]
    ELSE st

\* (faulty variant) the fields read by position: the timestamp from the
\* first part only, the signature from the second only
ScanPartsPositional(st, parts) ==
    IF Len(parts) # 2 THEN st
    ELSE LET first == IF StartsWith(parts[1], PrefixT) THEN ScanPart(st, parts[1]) ELSE st
         IN  IF StartsWith(parts[2], PrefixS0) THEN ScanPart(first, parts[2]) ELSE first

\* the locals before the loop
ScanStart == [timestamp |-> None, received_signature |-> None, raised |-> FALSE, literal |-> << >>]

\* for part in parts: ...
RECURSIVE ScanParts(_, _)
ScanParts(st, parts) ==
    IF Len(parts) = 0 THEN st ELSE ScanParts(ScanPart(st, parts[1]), Tail(parts))

\* not timestamp or not received_signature
MissingField(timestamp, received_signature) ==
    \/ timestamp = None
    \/ The(timestamp) = 0
    \/ received_signature = None
    \/ The(received_signature) = << >>

Abs(n) == IF n < 0 THEN 0 - n ELSE n

\* abs(current_time - timestamp) > max_age_seconds * 1000
OutsideWindow(current_time, timestamp, max_age_seconds) ==
    Abs(current_time - timestamp) > max_age_seconds * 1000

\* the tail of verify_signature, from the window check on. timestamp and
\* received_signature are the optional values the scan left; on None the
\* subtraction, and compare_digest, raise TypeError (verify_signature itself
\* never gets here with None)
CheckWindowAndSignature(hmac_key, timestamp, received_signature, payload, max_age_seconds, current_time) ==
    IF timestamp = None
    THEN Raised("TypeError", "unsupported operand type(s) for -: 'int' and 'NoneType'")
    ELSE IF OutsideWindow(current_time, The(timestamp), max_age_seconds)
    THEN WebhookVerificationError(MsgTooOld)
    ELSE IF received_signature = None
    THEN Raised("TypeError", "unsupported operand types(s) or combination of types: 'str' and 'NoneType'")
    ELSE LET expected_signature == CalculateSignature(hmac_key, The(timestamp), payload)
             cmp == CompareDigest(expected_signature, The(received_signature))
         IN  IF cmp.kind = "raise" THEN cmp
             ELSE IF ~cmp.value THEN WebhookVerificationError(MsgMismatch)
             ELSE Returned(TRUE)

VerifySignature(hmac_key, signature_header, payload, max_age_seconds, current_time) ==
    LET parts == Split(signature_header, ",")
    IN  IF BadPartCount(parts) THEN WebhookVerificationError(MsgMalformed)
        ELSE LET st == ScanParts(ScanStart, parts)
             IN  IF st.raised
                 THEN IntError(st.literal)
                 ELSE IF MissingField(st.timestamp, st.received_signature)
                 THEN WebhookVerificationError(MsgMissing)
                 ELSE CheckWindowAndSignature(hmac_key, st.timestamp,
                                              st.received_signature, payload,
                                              max_age_seconds, current_time)

\* the digest a sender holding hmac_key computes over tsText as sent
SenderSignature(hmac_key, tsText, payload) ==
    HmacHexDigest(hmac_key, Encode(tsText \o payload))

\* the signature verify_signature expects for a header whose timestamp text
\* is tsText (the sender's, when tsText is no integer)
GoodSignature(hmac_key, tsText, payload) ==
    LET r == PyInt(tsText)
    IN  IF r.ok THEN CalculateSignature(hmac_key, r.val, payload)
        ELSE SenderSignature(hmac_key, tsText, payload)

\* texts put after "s0=" in a header whose timestamp text is tsText
SigTexts(hmac_key, tsText, payload) ==
    LET good == GoodSignature(hmac_key, tsText, payload)
    IN  { good, SenderSignature(hmac_key, tsText, payload), Upper(good),
          SenderSignature(OtherKey, tsText, payload), << >> }
        \cup Flips(good)

TPart(tsText) == PrefixT \o tsText

SPart(sigText) == PrefixS0 \o sigText

\* parts that are neither: '' and 'a=1'
JunkParts == { << >>, << "a", "=", "1" >> }

\* 'a=1,b=2,c=3'
ThreeJunk == << << "a", "=", "1" >>, << "b", "=", "2" >>, << "c", "=", "3" >> >>

\* the signature headers of the model, each as its list of parts
HeaderParts(hmac_key, payload, max_age_seconds, current_time) ==
    LET T == TsTexts(current_time, max_age_seconds)
        nowText == PyStr(current_time)
        fewT == { nowText, << "0" >>, << "a", "b", "c" >> }
        fewS == { GoodSignature(hmac_key, nowText, payload), << >> }
        bothOrders(t) == UNION { { << TPart(t), SPart(g) >>, << SPart(g), TPart(t) >> } :
                                   g \in SigTexts(hmac_key, t, payload) }
    IN  UNION { bothOrders(t) : t \in T }
        \cup { << TPart(t) >> : t \in T }
        \cup { << SPart(g) >> : g \in fewS }
        \cup { << j >> : j \in JunkParts }
        \cup UNION { { << TPart(t), j >>, << j, TPart(t) >> } : t \in T, j \in JunkParts }
        \cup UNION { { << SPart(g), j >>, << j, SPart(g) >> } : g \in fewS, j \in JunkParts }
        \cup { << j, k >> : j \in JunkParts, k \in JunkParts }
        \cup { << TPart(t), TPart(u) >> : t \in fewT, u \in fewT }
        \cup { << SPart(g), SPart(h) >> : g \in fewS, h \in fewS }
        \cup { << TPart(nowText), SPart(g), j >> : g \in fewS, j \in JunkParts }
        \cup { ThreeJunk }

Headers(hmac_key, payload, max_age_seconds, current_time) ==
    { Join(p, ",") : p \in HeaderParts(hmac_key, payload, max_age_seconds, current_time) }

(***************************************************************************)
(* State of the direct use of a verifier.                                  *)
(***************************************************************************)
NoOutcome == [kind |-> "none", exc |-> "", value |-> ""]

NoVerifier == [state |-> "none", key_text |-> << >>, hmac_key |-> << >>, raised |-> ""]

\* replayed tells a call that repeats the arguments of the call before it
IdleCall ==
    [state |-> "idle", header |-> << >>, payload |-> << >>, max_age_seconds |-> 0,
     current_time |-> 0, outcome |-> NoOutcome, replayed |-> FALSE]

\* (faulty variant) the attribute reused for the keyed hash object: after an
\* accepted call self.hmac_key is no longer the key
AttributesAfterVerifyKeyOverwritten(v, outcome) ==
    IF outcome.kind = "return" THEN [v EXCEPT !.hmac_key = << >>] ELSE v

\* the attributes of the verifier after verify_signature: the method and
\* _calculate_signature assign to locals only
AttributesAfterVerify(v, outcome) == v

\* time.time() moves on
Tick ==
    /\ now < ClockStart + MaxTicks * TickMs
    /\ now' = now + TickMs
    /\ UNCHANGED << api, cardcheck, record, frames, verifier, call, settings, db, pc, req, txn, resp >>

\* verifier = WebhookVerifier(k)
Construct ==
    /\ call.state = "idle"
    /\ \E k \in KeyTexts : verifier' = NewVerifier(k)
    /\ UNCHANGED << api, cardcheck, record, frames, now, call, settings, db, pc, req, txn, resp >>

\* verifier.verify_signature(header, payload, max_age_seconds), read at the
\* clock value now; the call assigns no attribute of the verifier
VerifyCall ==
    /\ verifier.state = "constructed"
    /\ call.state = "idle"
    /\ \E payload \in Payloads, max_age_seconds \in MaxAges :
         \E header \in Headers(verifier.hmac_key, payload, max_age_seconds, now) :
           LET outcome == VerifySignature(verifier.hmac_key, header, payload,
                                          max_age_seconds, now)
           IN  /\ call' = [state |-> "returned", header |-> header, payload |-> payload,
                           max_age_seconds |-> max_age_seconds, current_time |-> now,
                           outcome |-> outcome, replayed |-> FALSE]
               /\ verifier' = AttributesAfterVerify(verifier, outcome)
    /\ UNCHANGED << api, cardcheck, record, frames, now, settings, db, pc, req, txn, resp >>

\* the same header and payload are handed to verify_signature once more, at
\* the clock value now
ReplayCall ==
    /\ verifier.state = "constructed"
    /\ call.state = "returned"
    /\ LET outcome == VerifySignature(verifier.hmac_key, call.header, call.payload,
                                      call.max_age_seconds, now)
       IN  /\ call' = [call EXCEPT !.current_time = now, !.outcome = outcome,
                                   !.replayed = TRUE]
           /\ verifier' = AttributesAfterVerify(verifier, outcome)
    /\ UNCHANGED << api, cardcheck, record, frames, now, settings, db, pc, req, txn, resp >>

\* the caller has taken the outcome
ReturnCall ==
    /\ call.state = "returned"
    /\ call' = IdleCall
    /\ UNCHANGED << api, cardcheck, record, frames, now, verifier, settings, db, pc, req, txn, resp >>

(***************************************************************************)
(* DatatransTransaction (contrib/django/models.py). A row holds the fields *)
(* the webhook path reads or writes; amount is NOT NULL, transaction_id is *)
(* unique, payment_method and masked_card and the two timestamps are       *)
(* nullable. The table maps a transaction_id to None or << row >>.         *)
(***************************************************************************)
TxnIds == { "1", "2" }

\* DatatransTransaction(transaction_id=.., status="initialized"): an unsaved
\* instance with the field defaults
NewTransaction(transaction_id) ==
    [adding |-> TRUE, transaction_id |-> transaction_id, merchant_reference |-> "",
     amount |-> JNull, currency |-> JStr(""), payment_method |-> JNull,
     status |-> JStr("initialized"), masked_card |-> JNull,
     authorized_at |-> None, settled_at |-> None, updated_at |-> None,
     webhook_data |-> JNull]

\* DatatransTransaction.objects.get(transaction_id=..): the stored row as an
\* instance, or DoesNotExist
ObjectsGet(table, transaction_id) ==
    IF transaction_id \in DOMAIN table /\ table[transaction_id] # None
    THEN [found |-> TRUE, instance |-> The(table[transaction_id])]
    ELSE [found |-> FALSE, instance |-> NewTransaction(transaction_id)]

\* the failure of Model.save() on this instance, "" when it succeeds:
\* IntegrityError on a NULL amount or currency (NOT NULL columns) and on a
\* second row with the transaction_id (unique). The amounts of the model
\* are numbers or null.
SaveError(table, instance) ==
    IF instance.amount.t = "null" \/ instance.currency.t = "null" THEN "IntegrityError"
    ELSE IF instance.adding /\ ObjectsGet(table, instance.transaction_id).found
    THEN "IntegrityError"
    ELSE ""

\* Model.save() when it succeeds: every field of the instance is written
\* (INSERT for a new instance, UPDATE of all columns otherwise), and
\* updated_at (auto_now) is the time of the save
SavedInstance(instance, current_time) ==
    [instance EXCEPT !.adding = FALSE, !.updated_at = Some(current_time)]

SavedTable(table, instance, current_time) ==
    [table EXCEPT ![instance.transaction_id] = Some(SavedInstance(instance, current_time))]

\* (faulty variant) each status stamps its own timestamp and resets the other
UpdateStatusFieldsResetting(instance, new_status, data, current_time) ==
    LET stamped ==
            IF new_status = JStr("authorized")
            THEN [instance EXCEPT !.authorized_at = Some(current_time), !.settled_at = None]
            ELSE IF new_status = JStr("settled")
            THEN [instance EXCEPT !.settled_at = Some(current_time), !.authorized_at = None]
            ELSE instance
        withData == IF Falsy(data) THEN stamped ELSE [stamped EXCEPT !.webhook_data = data]
    IN  [withData EXCEPT !.status = new_status, !.updated_at = Some(current_time)]

\* (faulty variant) transitions are validated: a settled transaction keeps
\* its status when a webhook says 'authorized'
UpdateStatusFieldsValidating(instance, new_status, data, current_time) ==
    LET stamped ==
            IF new_status = JStr("authorized")
            THEN [instance EXCEPT !.authorized_at = Some(current_time)]
            ELSE IF new_status = JStr("settled")
            THEN [instance EXCEPT !.settled_at = Some(current_time)]
            ELSE instance
        withData == IF Falsy(data) THEN stamped ELSE [stamped EXCEPT !.webhook_data = data]
    IN  IF instance.status = JStr("settled") /\ new_status = JStr("authorized")
        THEN [withData EXCEPT !.updated_at = Some(current_time)]
        ELSE [withData EXCEPT !.status = new_status, !.updated_at = Some(current_time)]

\* update_status, up to its self.save()
UpdateStatusFields(instance, new_status, data, current_time) ==
    LET stamped ==
            IF new_status = JStr("authorized")
            THEN [instance EXCEPT !.authorized_at = Some(current_time)]
            ELSE IF new_status = JStr("settled")
            THEN [instance EXCEPT !.settled_at = Some(current_time)]
            ELSE instance
        withData == IF Falsy(data) THEN stamped ELSE [stamped EXCEPT !.webhook_data = data]
    IN  [withData EXCEPT !.status = new_status, !.updated_at = Some(current_time)]

(***************************************************************************)
(* update_status called directly on an instance: the whole method, the     *)
(* assignments and the self.save() that ends it.                           *)
(***************************************************************************)
NoRecord ==
    [state |-> "none", instance |-> NewTransaction(""), new_status |-> JStr(""),
     data |-> JNull, raised |-> ""]

\* the statuses handed to update_status
NewStatuses == { JStr("authorized"), JStr("settled"), JStr("canceled") }

\* the data handed to update_status, by name: None (the default), {} and a
\* payload
StatusDataNames == { "None", "{}", "payload" }

StatusData(name) ==
    IF name = "None" THEN JNull ELSE IF name = "{}" THEN JObj(<< >>) ELSE JsonSettled

\* instance = DatatransTransaction.objects.get(transaction_id=id), or, when
\* there is no such row, a new unsaved instance as the view builds it
LoadRecord ==
    /\ record.state \in { "none", "loaded" }
    /\ \E id \in TxnIds :
         record' = [NoRecord EXCEPT !.state = "loaded", !.instance = ObjectsGet(db, id).instance]
    /\ UNCHANGED << api, cardcheck, frames, now, verifier, call, settings, db, pc, req, txn, resp >>

\* instance.update_status(new_status, data): the assignments, then
\* self.save(), which may raise
UpdateStatusCall ==
    /\ record.state = "loaded"
    /\ \E new_status \in NewStatuses, name \in StatusDataNames :
         LET data == StatusData(name)
             updated == UpdateStatusFields(record.instance, new_status, data, now)
             error == SaveError(db, updated)
         IN  /\ record' = [state |-> "updated",
                           instance |-> IF error = "" THEN SavedInstance(updated, now) ELSE updated,
                           new_status |-> new_status, data |-> data, raised |-> error]
             /\ db' = IF error = "" THEN SavedTable(db, updated, now) ELSE db
    /\ UNCHANGED << api, cardcheck, frames, now, verifier, call, settings, pc, req, txn, resp >>

\* the caller goes on with the instance
ResumeRecord ==
    /\ record.state = "updated"
    /\ record' = [record EXCEPT !.state = "loaded"]
    /\ UNCHANGED << api, cardcheck, frames, now, verifier, call, settings, db, pc, req, txn, resp >>

(***************************************************************************)
(* DatatransClient._request (client.py): the headers of the request it     *)
(* builds, and what it makes of the outcome of urllib.request.urlopen.     *)
(***************************************************************************)
\* str.upper() of ASCII text: Printable holds 'A'..'Z' at 34..59 and
\* 'a'..'z' at 66..91
UpperChar(c) ==
    IF \E i \in 66..91 : Printable[i] = c
    THEN Printable[(CHOOSE i \in 66..91 : Printable[i] = c) - 32]
    ELSE c

StrUpper(text) == [i \in 1..Len(text) |-> UpperChar(text[i])]

\* _create_auth_header for the client of the model, DatatransClient('m', 'p'):
\* 'Basic ' + base64('m:p')
AuthHeader == "Basic bTpw"

\* (faulty variant) the method compared as given
IsPostExact(method) == method = << "P", "O", "S", "T" >>

\* method.upper() == "POST"
IsPost(method) == StrUpper(method) = << "P", "O", "S", "T" >>

\* the headers dict handed to urllib.request.Request; idempotency_key is
\* None or << key >>
RequestHeaders(method, idempotency_key) ==
    LET base == [name \in { "Authorization", "Content-Type", "User-Agent" } |->
                    IF name = "Authorization" THEN AuthHeader
                    ELSE IF name = "Content-Type" THEN "application/json"
                    ELSE "Datatrans-Python/1.0.0"]
    IN  IF idempotency_key # None /\ The(idempotency_key) # "" /\ IsPost(method)
        THEN [name \in DOMAIN base \cup { "Idempotency-Key" } |->
                 IF name = "Idempotency-Key" THEN The(idempotency_key) ELSE base[name]]
        ELSE base

\* a byte that no UTF-8 text contains (0xFF), written as a token
InvalidByte == "0xFF"

\* bytes.decode("utf-8"): UnicodeDecodeError on an invalid byte
Utf8Decodes(bytes) == \A i \in 1..Len(bytes) : bytes[i] # InvalidByte

\* what urlopen and the reading of the response come to. kind "response":
\* urlopen returned a response with this status, whose read() gives body;
\* "HTTPError": urlopen raised HTTPError with this code, whose read() gives
\* body; "IncompleteRead": a response with this status arrived (as a
\* response for 2xx, as an HTTPError otherwise) and its read() raised
\* because the connection broke; "URLError", "SSLError", "TimeoutError",
\* "InvalidURL": urlopen raised it and no status arrived
Exchange(kind, status, body) == [kind |-> kind, status |-> status, body |-> body]

\* bodies of a response: none, a JSON object, text that is no JSON, and
\* bytes that are no UTF-8
ResponseBodies == { << >>, BodyTxnOnly, << "a", "b", "c" >>, << InvalidByte >> }

\* urlopen returns only responses with a 2xx status: its HTTPErrorProcessor
\* raises HTTPError for every other status
Exchanges ==
    { Exchange("response", st, b) : st \in { 200, 204 }, b \in ResponseBodies }
    \cup { Exchange("HTTPError", st, b) : st \in { 304, 400, 404, 500 }, b \in ResponseBodies }
    \cup { Exchange("IncompleteRead", st, << >>) : st \in { 200, 500 } }
    \cup { Exchange(k, 0, << >>) : k \in { "URLError", "SSLError", "TimeoutError", "InvalidURL" } }

\* raise DatatransError(message, status_code, error_data): error_data is
\* named by its key, or "json" for the parsed body and "{}" for the empty dict
DatatransError(status_code, error_data) ==
    [kind |-> "raise", exc |-> "DatatransError", status_code |-> status_code,
     data |-> error_data]

\* another exception leaves _request
Escapes(exc) == [kind |-> "raise", exc |-> exc, status_code |-> 0, data |-> ""]

\* _request returns response_data
ReturnsData(data) == [kind |-> "return", exc |-> "", status_code |-> 0, data |-> data]

\* the try block of _request and its except clauses, for one exchange
RequestOutcome(exchange) ==
    IF exchange.kind = "response"
    THEN IF exchange.body = << >>
         THEN IF exchange.status >= 400 THEN DatatransError(0, "exception_type")
              ELSE ReturnsData("{}")
         ELSE IF ~Utf8Decodes(exchange.body) THEN DatatransError(0, "exception_type")
         ELSE IF exchange.status >= 400 THEN DatatransError(0, "exception_type")
         ELSE IF JsonLoads(exchange.body).t = "invalid" THEN ReturnsData("raw_response")
         ELSE ReturnsData("json")
    ELSE IF exchange.kind = "HTTPError"
    THEN IF exchange.body = << >> THEN DatatransError(exchange.status, "{}")
         ELSE IF ~Utf8Decodes(exchange.body) THEN Escapes("UnicodeDecodeError")
         ELSE IF JsonLoads(exchange.body).t = "invalid"
         THEN DatatransError(exchange.status, "raw_error")
         ELSE DatatransError(exchange.status, "json")
    ELSE IF exchange.kind = "IncompleteRead" /\ ~(exchange.status \in 200..299)
    THEN Escapes("IncompleteRead")
    ELSE IF exchange.kind = "URLError" THEN DatatransError(0, "reason")
    ELSE IF exchange.kind = "SSLError" THEN DatatransError(0, "ssl_error")
    ELSE IF exchange.kind = "TimeoutError" THEN DatatransError(0, "timeout")
    ELSE DatatransError(0, "exception_type")

NoApiCall ==
    [state |-> "none", method |-> << >>, idempotency_key |-> None,
     sent_method |-> << >>, headers |-> << >>, exchange |-> Exchange("", 0, << >>),
     outcome |-> ReturnsData("")]

\* the methods handed to _request
Methods ==
    { << "P", "O", "S", "T" >>, << "p", "o", "s", "t" >>, << "P", "o", "s", "t" >>,
      << "G", "E", "T" >>, << "g", "e", "t" >>, << "D", "E", "L", "E", "T", "E" >>,
      << "P", "A", "T", "C", "H" >>, << "P", "U", "T" >> }

\* idempotency_key: None (the default), '' and a key
IdempotencyKeys == { None, Some(""), Some("k1") }

\* the threads that call _request on one client
Callers == { "c1", "c2" }

NoApiCalls == [c \in Callers |-> NoApiCall]

\* the status of a response arrives from urlopen as a response when it is
\* 2xx and as an HTTPError otherwise
Arrival(status) ==
    Exchange(IF status \in 200..299 THEN "response" ELSE "HTTPError", status, << >>)

\* client._request(method, endpoint, data, idempotency_key), up to the wait
\* in urlopen: the headers and the Request are built and handed over
ApiRequest(c) ==
    /\ api[c].state = "none"
    /\ \E method \in Methods, idempotency_key \in IdempotencyKeys :
         api' = [api EXCEPT ![c] =
                    [NoApiCall EXCEPT !.state = "sent", !.method = method,
                                      !.idempotency_key = idempotency_key,
                                      !.sent_method = StrUpper(method),
                                      !.headers = RequestHeaders(method, idempotency_key)]]
    /\ UNCHANGED << cardcheck, record, frames, now, verifier, call, settings, db, pc, req, txn, resp >>

\* urlopen raises without a status having arrived, and the outcome is raised
ApiNoResponse(c) ==
    /\ api[c].state = "sent"
    /\ \E exchange \in Exchanges :
         /\ exchange.status = 0
         /\ api' = [api EXCEPT ![c] = [@ EXCEPT !.state = "done", !.exchange = exchange,
                                                !.outcome = RequestOutcome(exchange)]]
    /\ UNCHANGED << cardcheck, record, frames, now, verifier, call, settings, db, pc, req, txn, resp >>

\* urlopen returns a response or raises HTTPError: the status is known, the
\* body is still to be read
ApiResponse(c) ==
    /\ api[c].state = "sent"
    /\ \E exchange \in Exchanges :
         /\ exchange.status # 0
         /\ api' = [api EXCEPT ![c] = [@ EXCEPT !.state = "reading",
                                                !.exchange = Arrival(exchange.status)]]
    /\ UNCHANGED << cardcheck, record, frames, now, verifier, call, settings, db, pc, req, txn, resp >>

\* response.read() or e.read() returns the body or raises, and the outcome
\* is returned or raised
ApiRead(c) ==
    /\ api[c].state = "reading"
    /\ \E exchange \in Exchanges :
         /\ exchange.status = api[c].exchange.status
         /\ api' = [api EXCEPT ![c] = [@ EXCEPT !.state = "done", !.exchange = exchange,
                                                !.outcome = RequestOutcome(exchange)]]
    /\ UNCHANGED << cardcheck, record, frames, now, verifier, call, settings, db, pc, req, txn, resp >>

\* the caller has taken the outcome
ApiReturn(c) ==
    /\ api[c].state = "done"
    /\ api' = [api EXCEPT ![c] = NoApiCall]
    /\ UNCHANGED << cardcheck, record, frames, now, verifier, call, settings, db, pc, req, txn, resp >>

(***************************************************************************)
(* validate_card_number (models.py).                                       *)
(***************************************************************************)
\* str.isdigit() of one character: the decimal digits and the other digits
CharIsDigit(c) == IsDigit(c) \/ c = SuperscriptTwo

\* int(c) of one character: ok and the value, or ValueError
CharInt(c) ==
    IF IsDigit(c) THEN [ok |-> TRUE, val |-> DigitVal[c]]
    ELSE [ok |-> FALSE, val |-> 0]

\* number[::-1]
Reverse(text) == [i \in 1..Len(text) |-> text[Len(text) + 1 - i]]

RECURSIVE LuhnLoop(_, _, _)
\* for i, digit in enumerate(reverse_digits), from index i on (0-based) with
\* the total so far; -1 when int(digit) raises
LuhnLoop(reverse_digits, i, total) ==
    IF i >= Len(reverse_digits) THEN total
    ELSE LET r == CharInt(reverse_digits[i + 1])
             doubled == r.val * 2
             n == IF i % 2 = 1 THEN (IF doubled > 9 THEN doubled - 9 ELSE doubled) ELSE r.val
         IN  IF ~r.ok THEN 0 - 1 ELSE LuhnLoop(reverse_digits, i + 1, total + n)

\* validate_card_number(number): None, or the exception raised
ValidateCardNumber(number) ==
    IF number = << >> \/ ~(\A i \in 1..Len(number) : CharIsDigit(number[i]))
    THEN Raised("ValidationError", "Card number must contain only digits")
    ELSE LET reverse_digits == Reverse(number)
             total == LuhnLoop(reverse_digits, 0, 0)
             bad == CHOOSE i \in 1..Len(reverse_digits) :
                        /\ ~CharInt(reverse_digits[i]).ok
                        /\ \A j \in 1..(i - 1) : CharInt(reverse_digits[j]).ok
         IN  IF total < 0 THEN IntError(<< reverse_digits[bad] >>)
             ELSE IF total % 10 # 0 THEN Raised("ValidationError", "Invalid card number")
             ELSE Returned("None")

\* the characters of the card numbers of the model, and their greatest length
CardAlphabet == { "0", "1", "5", "9", "a", " ", ArabicZero, SuperscriptTwo }

MaxCardLen == 3

CardNumbers == UNION { [1..n -> CardAlphabet] : n \in 0..MaxCardLen }

NoCardCall == [state |-> "none", number |-> << >>, outcome |-> NoOutcome]

\* validate_card_number(number)
ValidateCall ==
    /\ cardcheck.state = "none"
    /\ \E number \in CardNumbers :
         cardcheck' = [state |-> "done", number |-> number, outcome |-> ValidateCardNumber(number)]
    /\ UNCHANGED << api, record, frames, now, verifier, call, settings, db, pc, req, txn, resp >>

\* the caller has taken the outcome
ValidateReturn ==
    /\ cardcheck.state = "done"
    /\ cardcheck' = NoCardCall
    /\ UNCHANGED << api, record, frames, now, verifier, call, settings, db, pc, req, txn, resp >>

(***************************************************************************)
(* webhook_view (contrib/django/views.py), for the POST requests that      *)
(* require_POST lets through.                                              *)
(***************************************************************************)
Handlers == { "h1", "h2" }

JsonResponse(status, key, text) == [status |-> status, key |-> key, text |-> text]

NoResponse == JsonResponse(0, "", "")

ResponseReceived == JsonResponse(200, "status", "received")

NoRequest == [signature_header |-> None, body |-> << >>]

\* the handler's locals: the parsed payload and the instance; and, for the
\* properties, the exception the view caught, whether verify_signature had
\* returned, how often verify_signature was called, whether json.loads was
\* called, the str(e) of that exception and the lines logged up to the first
\* query, the number of saves this run has committed, and the clock reading
\* and the table when the request arrived
NoLocals ==
    [data |-> JNull, transaction |-> NewTransaction(""), saves |-> 0, caught |-> "",
     message |-> << >>, log |-> << >>,
     verified |-> FALSE, verify_calls |-> 0, parsed |-> FALSE, at |-> 0,
     db_before |-> << >>]

\* Texts the view logs are lists of pieces, each piece a sequence: a literal
\* of the source as << "literal" >>, an interpolated text as its characters.
Lit(s) == << s >>

\* str(e) of the ValueError of bytes.fromhex(hmac_key)
FromHexErrorText(hmac_key) ==
    << Lit("non-hexadecimal number found in fromhex() arg at position "),
       PyStr(FromHexErrorAt(hmac_key, 0)) >>

\* str(e) of the ValueError of int(part[2:]): it quotes the text of the first
\* 't=' part that is no integer
IntErrorText(signature_header) ==
    LET parts == Split(signature_header, ",")
        bad == { i \in 1..Len(parts) :
                   StartsWith(parts[i], PrefixT) /\ ~PyInt(DropFirst(parts[i], 2)).ok }
        first == CHOOSE i \in bad : \A j \in bad : i <= j
    IN  << Lit("invalid literal for int() with base 10: "), Repr(DropFirst(parts[first], 2)) >>

\* str(e) of what verify_signature raised
VerifyErrorText(outcome, signature_header) ==
    IF outcome.exc = "ValueError" THEN IntErrorText(signature_header)
    ELSE << Lit(outcome.value) >>

\* str(e) of the JSONDecodeError of json.loads for the two bodies of the
\* model that are no JSON document, the empty body and '{'
JsonErrorText(body) ==
    IF body = << >> THEN << Lit("Expecting value: line 1 column 1 (char 0)") >>
    ELSE << Lit("Expecting property name enclosed in double quotes: line 1 column 2 (char 1)") >>

\* logger.error / logger.warning: one line of the log
LogLine(level, text) == [level |-> level, text |-> text]

\* logger.error(f"Webhook processing error: {str(e)}")
ProcessingErrorLine(text) == LogLine("error", << Lit("Webhook processing error: ") >> \o text)

\* (faulty variant) only a failed construction stops the view: an exception of
\* verify_signature is swallowed
VerificationRaisedOnlyConstruction(v, outcome) == v.state = "failed"

\* (faulty variant) a WebhookVerificationError is logged and passed over; only
\* the other exceptions stop the view
VerificationRaisedOnlyUnexpected(v, outcome) ==
    \/ v.state = "failed"
    \/ outcome.kind = "raise" /\ outcome.exc # "WebhookVerificationError"

\* the try block leaves for "except Exception" at the construction or at
\* verify_signature
VerificationRaised(v, outcome) == v.state = "failed" \/ outcome.kind = "raise"

\* the view up to its first query: configuration, header, verification,
\* parsing and the transactionId. Gives either the response, or the parsed
\* data with which the view goes on; caught names the exception the
\* "except Exception" clause caught, message its str(e), log the lines
\* logged so far
ViewHead(hmac_key, request, current_time) ==
    IF hmac_key = None \/ The(hmac_key) = << >>
    THEN [resp |-> JsonResponse(500, "error", "Configuration error"), caught |-> "",
          message |-> << >>,
          log |-> << LogLine("error", << Lit("DATATRANS_HMAC_KEY not configured") >>) >>,
          verified |-> FALSE, verify_calls |-> 0, parsed |-> FALSE, data |-> JNull]
    ELSE IF request.signature_header = None \/ The(request.signature_header) = << >>
    THEN [resp |-> JsonResponse(400, "error", "Missing signature"), caught |-> "",
          message |-> << >>,
          log |-> << LogLine("warning", << Lit("Missing Datatrans-Signature header") >>) >>,
          verified |-> FALSE, verify_calls |-> 0, parsed |-> FALSE, data |-> JNull]
    ELSE LET v == NewVerifier(The(hmac_key))
             outcome == VerifySignature(v.hmac_key, The(request.signature_header),
                                        request.body, DefaultMaxAge, current_time)
             data == JsonLoads(request.body)
             processingError(exc, text, verified) ==
                 [resp |-> JsonResponse(500, "error", "Processing error"), caught |-> exc,
                  message |-> text,
                  log |-> << ProcessingErrorLine(text) >>,
                  verified |-> verified,
                  verify_calls |-> IF v.state = "failed" THEN 0 ELSE 1,
                  parsed |-> verified, data |-> JNull]
         IN  IF VerificationRaised(v, outcome)
             THEN IF v.state = "failed"
                  THEN processingError(v.raised, FromHexErrorText(The(hmac_key)), FALSE)
                  ELSE processingError(outcome.exc,
                                       VerifyErrorText(outcome, The(request.signature_header)),
                                       FALSE)
             ELSE IF data.t = "invalid"
             THEN processingError("JSONDecodeError", JsonErrorText(request.body), TRUE)
             ELSE IF data.t # "obj"
             THEN processingError("AttributeError",
                                  << Lit("'list' object has no attribute 'get'") >>, TRUE)
             ELSE IF Falsy(DictGet(data, "transactionId", JNull))
             THEN [resp |-> JsonResponse(400, "error", "Invalid payload"), caught |-> "",
                   message |-> << >>,
                   log |-> << LogLine("error", << Lit("Missing transactionId in webhook payload") >>) >>,
                   verified |-> TRUE, verify_calls |-> 1, parsed |-> TRUE, data |-> data]
             ELSE [resp |-> NoResponse, caught |-> "", message |-> << >>, log |-> << >>,
                   verified |-> TRUE, verify_calls |-> 1, parsed |-> TRUE, data |-> data]

\* a request arrives and the view runs up to its first query
Receive(h, requests) ==
    /\ pc[h] = "idle"
    /\ \E request \in requests :
         \E head \in { ViewHead(settings.DATATRANS_HMAC_KEY, request, now) } :
             /\ req' = [req EXCEPT ![h] = request]
             /\ txn' = [txn EXCEPT ![h] = [NoLocals EXCEPT !.data = head.data,
                                                          !.caught = head.caught,
                                                          !.message = head.message,
                                                          !.log = head.log,
                                                          !.verified = head.verified,
                                                          !.verify_calls = head.verify_calls,
                                                          !.parsed = head.parsed,
                                                          !.at = now,
                                                          !.db_before = db]]
             /\ resp' = [resp EXCEPT ![h] = head.resp]
             /\ pc' = [pc EXCEPT ![h] = IF head.resp = NoResponse THEN "get" ELSE "done"]
    /\ UNCHANGED << api, cardcheck, record, frames, now, verifier, call, settings, db >>

\* (faulty variant) transaction.save() stands outside "if status": the
\* instance is saved also when the payload has no status
FindOrCreateAlwaysSaving(h) ==
    /\ pc[h] = "get"
    /\ LET data == txn[h].data
           got == ObjectsGet(db, DictGet(data, "transactionId", JNull).v)
           status == DictGet(data, "status", JNull)
       IN  IF Falsy(status)
           THEN /\ txn' = [txn EXCEPT ![h].transaction = got.instance]
                /\ resp' = resp
                /\ pc' = [pc EXCEPT ![h] = "save_final"]
           ELSE /\ txn' = [txn EXCEPT ![h].transaction =
                               UpdateStatusFields(got.instance, status, data, now)]
                /\ resp' = resp
                /\ pc' = [pc EXCEPT ![h] = "save_status"]
    /\ UNCHANGED << api, cardcheck, record, frames, now, verifier, call, settings, db, req >>

\* objects.get or the new instance; then, with a status, update_status up
\* to its save; without one, the response
FindOrCreate(h) ==
    /\ pc[h] = "get"
    /\ LET data == txn[h].data
           got == ObjectsGet(db, DictGet(data, "transactionId", JNull).v)
           status == DictGet(data, "status", JNull)
       IN  IF Falsy(status)
           THEN /\ txn' = [txn EXCEPT ![h].transaction = got.instance]
                /\ resp' = [resp EXCEPT ![h] = ResponseReceived]
                /\ pc' = [pc EXCEPT ![h] = "done"]
           ELSE /\ txn' = [txn EXCEPT ![h].transaction =
                               UpdateStatusFields(got.instance, status, data, now)]
                /\ resp' = resp
                /\ pc' = [pc EXCEPT ![h] = "save_status"]
    /\ UNCHANGED << api, cardcheck, record, frames, now, verifier, call, settings, db, req >>

\* the fields the view sets after update_status; error is the exception
\* data["card"].get raises when card is no dict
OtherFields(instance, data) ==
    LET card == DictGet(data, "card", JNull)
        base == [instance EXCEPT
                    !.amount = DictGet(data, "amount", instance.amount),
                    !.currency = DictGet(data, "currency", instance.currency),
                    !.payment_method = DictGet(data, "paymentMethod", instance.payment_method)]
    IN  IF ~HasKey(data, "card") THEN [error |-> "", instance |-> base]
        ELSE IF card.t # "obj" THEN [error |-> "AttributeError", instance |-> base]
        ELSE [error |-> "",
              instance |-> [base EXCEPT !.masked_card = DictGet(card, "masked", JNull)]]

\* the self.save() that ends update_status, then the other fields (a save
\* that fails has set updated_at of the instance, auto_now, before its SQL)
SaveStatus(h) ==
    /\ pc[h] = "save_status"
    /\ LET instance == txn[h].transaction
           error == SaveError(db, instance)
           other == OtherFields(SavedInstance(instance, now), txn[h].data)
           failWith(exc) ==
               /\ resp' = [resp EXCEPT ![h] = JsonResponse(500, "error", "Processing error")]
               /\ pc' = [pc EXCEPT ![h] = "done"]
       IN  IF error # ""
           THEN /\ db' = db
                /\ txn' = [txn EXCEPT ![h].caught = error,
                                      ![h].transaction.updated_at = Some(now)]
                /\ failWith(error)
           ELSE /\ db' = SavedTable(db, instance, now)
                /\ IF other.error # ""
                   THEN /\ txn' = [txn EXCEPT ![h].transaction = other.instance,
                                              ![h].saves = @ + 1,
                                              ![h].caught = other.error]
                        /\ failWith(other.error)
                   ELSE /\ txn' = [txn EXCEPT ![h].transaction = other.instance,
                                              ![h].saves = @ + 1]
                        /\ resp' = resp
                        /\ pc' = [pc EXCEPT ![h] = "save_final"]
    /\ UNCHANGED << api, cardcheck, record, frames, now, verifier, call, settings, req >>

\* transaction.save() and the response
SaveFinal(h) ==
    /\ pc[h] = "save_final"
    /\ LET instance == txn[h].transaction
           error == SaveError(db, instance)
       IN  IF error # ""
           THEN /\ db' = db
                /\ txn' = [txn EXCEPT ![h].caught = error,
                                      ![h].transaction.updated_at = Some(now)]
                /\ resp' = [resp EXCEPT ![h] = JsonResponse(500, "error", "Processing error")]
           ELSE /\ db' = SavedTable(db, instance, now)
                /\ txn' = [txn EXCEPT ![h].transaction = SavedInstance(instance, now),
                                      ![h].saves = @ + 1]
                /\ resp' = [resp EXCEPT ![h] = ResponseReceived]
    /\ pc' = [pc EXCEPT ![h] = "done"]
    /\ UNCHANGED << api, cardcheck, record, frames, now, verifier, call, settings, req >>

\* the response has been sent; the handler is free for the next request
Respond(h) ==
    /\ pc[h] = "done"
    /\ pc' = [pc EXCEPT ![h] = "idle"]
    /\ req' = [req EXCEPT ![h] = NoRequest]
    /\ txn' = [txn EXCEPT ![h] = NoLocals]
    /\ resp' = [resp EXCEPT ![h] = NoResponse]
    /\ UNCHANGED << api, cardcheck, record, frames, now, verifier, call, settings, db >>

(***************************************************************************)
(* Inputs of webhook_view.                                                 *)
(***************************************************************************)
\* settings.DATATRANS_HMAC_KEY: absent, empty, the key, another key ("0102",
\* the bytes of OtherKey), and three texts that are no hex
SettingsKeys ==
    { None, Some(<< >>), Some(ConfiguredKey), Some(<< "0", "1", "0", "2" >>),
      Some(<< "z", "z" >>), Some(<< "6", "z" >>), Some(<< "z", NonAscii >>) }

\* the row the application stored when it initialised payment "1"
InitialRow ==
    [adding |-> FALSE, transaction_id |-> "1", merchant_reference |-> "order-1",
     amount |-> JNum(1000), currency |-> JStr("CHF"), payment_method |-> JNull,
     status |-> JStr("initialized"), masked_card |-> JNull,
     authorized_at |-> None, settled_at |-> None, updated_at |-> Some(ClockStart),
     webhook_data |-> JNull]

InitialTable == [id \in TxnIds |-> IF id = "1" THEN Some(InitialRow) ELSE None]

\* Datatrans-Signature headers of a request with this body: none, empty,
\* correctly signed (now, at the edge of the window, just outside it on
\* either side, at 0), wrongly signed, and ill-formed ones
ViewHeaders(body, current_time) ==
    LET w == DefaultMaxAge * 1000
        signed(ts) == Join(<< TPart(PyStr(ts)), SPart(CalculateSignature(SenderKey, ts, body)) >>, ",")
        good == CalculateSignature(SenderKey, current_time, body)
        nowText == PyStr(current_time)
    IN  { None, Some(<< >>) }
        \cup { Some(signed(ts)) :
                 ts \in { current_time, current_time - w, current_time - w - 1,
                          current_time + w + 1, 0 } }
        \cup { Some(Join(<< TPart(nowText), SPart(Replace(good, 1, IF good[1] = "0" THEN "f" ELSE "0")) >>, ",")),
               Some(Join(<< TPart(nowText), SPart(SenderSignature(OtherKey, nowText, body)) >>, ",")),
               Some(Join(<< TPart(nowText), SPart(Replace(good, DigestLen, NonAscii)) >>, ",")),
               Some(Join(<< TPart(<< "a", "b", "c" >>), SPart(good) >>, ",")),
               Some(Join(<< TPart(nowText), << "a", "=", "1" >> >>, ",")),
               Some(Join(<< SPart(good), << >> >>, ",")),
               Some(TPart(nowText)),
               Some(Join(<< TPart(nowText), SPart(good), << >> >>, ",")),
               Some(Join(ThreeJunk, ",")) }

ViewRequests(current_time) ==
    UNION { { [signature_header |-> hd, body |-> body] : hd \in ViewHeaders(body, current_time) } :
              body \in ViewBodies }

\* the requests two handlers serve at the same time: correctly signed
\* webhooks for the stored transaction, 'authorized', 'settled' and one
\* without a status, and one whose signature is wrong
OverlappingRequests(current_time) ==
    LET signed(body) == Some(Join(<< TPart(PyStr(current_time)),
                                     SPart(CalculateSignature(SenderKey, current_time, body)) >>, ","))
    IN  { [signature_header |-> signed(body), body |-> body] :
            body \in { BodyAuthorized, BodySettled, BodyTxnOnly } }
        \cup { [signature_header |-> signed(BodySettled), body |-> BodyAuthorized] }

(***************************************************************************)
(* Concurrent calls of verify_signature on one shared verifier. Each       *)
(* thread runs the method in its own frame, statement by statement; the    *)
(* threads share the verifier object and the clock.                        *)
(***************************************************************************)
Threads == { "t1", "t2" }

\* the frame of a call: its arguments and its locals
NoFrame ==
    [pc |-> "idle", signature_header |-> << >>, payload |-> << >>, max_age_seconds |-> 0,
     parts |-> << >>, timestamp |-> None, received_signature |-> None,
     current_time |-> 0, expected_signature |-> << >>, outcome |-> NoOutcome]

\* (faulty variant) timestamp and received_signature kept in one place for
\* all calls instead of in the frame of each
ScannedFieldsShared(fr, t) ==
    [timestamp |-> fr["t1"].timestamp, received_signature |-> fr["t1"].received_signature]

\* timestamp and received_signature as thread t reads them: its own locals
ScannedFields(fr, t) ==
    [timestamp |-> fr[t].timestamp, received_signature |-> fr[t].received_signature]

\* the headers the threads hand in: correctly signed in both orders,
\* tampered with, stamped just outside the window, without a signature,
\* with three parts, and with a timestamp that is no integer
ConcurrentHeaders(hmac_key, payload, current_time) ==
    LET nowText == PyStr(current_time)
        good == CalculateSignature(hmac_key, current_time, payload)
        old == current_time - DefaultMaxAge * 1000 - 1
    IN  { Join(<< TPart(nowText), SPart(good) >>, ","),
          Join(<< SPart(good), TPart(nowText) >>, ","),
          Join(<< TPart(nowText), SPart(Replace(good, 1, IF good[1] = "0" THEN "f" ELSE "0")) >>, ","),
          Join(<< TPart(PyStr(old)), SPart(CalculateSignature(hmac_key, old, payload)) >>, ","),
          Join(<< TPart(nowText), << "a", "=", "1" >> >>, ","),
          Join(ThreeJunk, ","),
          Join(<< TPart(<< "a", "b", "c" >>), SPart(good) >>, ",") }

FinishFrame(f, outcome) == [f EXCEPT !.pc = "done", !.outcome = outcome]

\* thread t calls verifier.verify_signature(header, payload)
Enter(t) ==
    /\ verifier.state = "constructed"
    /\ frames[t].pc = "idle"
    /\ \E payload \in Payloads :
         \E header \in ConcurrentHeaders(verifier.hmac_key, payload, now) :
           frames' = [frames EXCEPT ![t] =
                         [NoFrame EXCEPT !.pc = "split", !.signature_header = header,
                                         !.payload = payload,
                                         !.max_age_seconds = DefaultMaxAge]]
    /\ UNCHANGED << api, cardcheck, record, now, verifier, call, settings, db, pc, req, txn, resp >>

\* parts = signature_header.split(","); the part count
StepSplit(t) ==
    /\ frames[t].pc = "split"
    /\ LET parts == Split(frames[t].signature_header, ",")
       IN  frames' = [frames EXCEPT ![t] =
                         IF BadPartCount(parts)
                         THEN FinishFrame(@, WebhookVerificationError(MsgMalformed))
                         ELSE [@ EXCEPT !.pc = "scan", !.parts = parts]]
    /\ UNCHANGED << api, cardcheck, record, now, verifier, call, settings, db, pc, req, txn, resp >>

\* the loop over the parts
StepScan(t) ==
    /\ frames[t].pc = "scan"
    /\ LET st == ScanParts(ScanStart, frames[t].parts)
       IN  frames' = [frames EXCEPT ![t] =
                         IF st.raised
                         THEN FinishFrame(@, IntError(st.literal))
                         ELSE [@ EXCEPT !.pc = "missing", !.timestamp = st.timestamp,
                                        !.received_signature = st.received_signature]]
    /\ UNCHANGED << api, cardcheck, record, now, verifier, call, settings, db, pc, req, txn, resp >>

\* if not timestamp or not received_signature
StepMissing(t) ==
    /\ frames[t].pc = "missing"
    /\ LET f == ScannedFields(frames, t)
       IN  frames' = [frames EXCEPT ![t] =
                         IF MissingField(f.timestamp, f.received_signature)
                         THEN FinishFrame(@, WebhookVerificationError(MsgMissing))
                         ELSE [@ EXCEPT !.pc = "window"]]
    /\ UNCHANGED << api, cardcheck, record, now, verifier, call, settings, db, pc, req, txn, resp >>

\* current_time = int(time.time() * 1000) and the window
StepWindow(t) ==
    /\ frames[t].pc = "window"
    /\ LET f == ScannedFields(frames, t)
       IN  frames' = [frames EXCEPT ![t] =
                         IF f.timestamp = None
                         THEN FinishFrame([@ EXCEPT !.current_time = now],
                                          Raised("TypeError", "unsupported operand type(s) for -: 'int' and 'NoneType'"))
                         ELSE IF OutsideWindow(now, The(f.timestamp), frames[t].max_age_seconds)
                         THEN FinishFrame([@ EXCEPT !.current_time = now],
                                          WebhookVerificationError(MsgTooOld))
                         ELSE [@ EXCEPT !.pc = "sign", !.current_time = now]]
    /\ UNCHANGED << api, cardcheck, record, now, verifier, call, settings, db, pc, req, txn, resp >>

\* expected_signature = self._calculate_signature(timestamp, payload), which
\* reads self.hmac_key
StepSign(t) ==
    /\ frames[t].pc = "sign"
    /\ LET f == ScannedFields(frames, t)
       IN  frames' = [frames EXCEPT ![t] =
                         [@ EXCEPT !.pc = "compare",
                                   !.expected_signature =
                                       CalculateSignatureOpt(verifier.hmac_key, f.timestamp,
                                                             frames[t].payload)]]
    /\ UNCHANGED << api, cardcheck, record, now, verifier, call, settings, db, pc, req, txn, resp >>

\* hmac.compare_digest(expected_signature, received_signature) and the return
StepCompare(t) ==
    /\ frames[t].pc = "compare"
    /\ LET f == ScannedFields(frames, t)
           cmp == CompareDigest(frames[t].expected_signature, The(f.received_signature))
       IN  frames' = [frames EXCEPT ![t] =
                         IF f.received_signature = None
                         THEN FinishFrame(@, Raised("TypeError", "unsupported operand types(s) or combination of types: 'str' and 'NoneType'"))
                         ELSE IF cmp.kind = "raise" THEN FinishFrame(@, cmp)
                         ELSE IF ~cmp.value THEN FinishFrame(@, WebhookVerificationError(MsgMismatch))
                         ELSE FinishFrame(@, Returned(TRUE))]
    /\ UNCHANGED << api, cardcheck, record, now, verifier, call, settings, db, pc, req, txn, resp >>

\* the caller of thread t has taken the outcome
Leave(t) ==
    /\ frames[t].pc = "done"
    /\ frames' = [frames EXCEPT ![t] = NoFrame]
    /\ UNCHANGED << api, cardcheck, record, now, verifier, call, settings, db, pc, req, txn, resp >>

(***************************************************************************)
(* Specifications.                                                         *)
(***************************************************************************)
InitVerifier ==
    /\ now = ClockStart
    /\ verifier = NoVerifier
    /\ call = IdleCall
    /\ settings = [DATATRANS_HMAC_KEY |-> Some(ConfiguredKey)]
    /\ db = InitialTable
    /\ pc = [h \in Handlers |-> "idle"]
    /\ req = [h \in Handlers |-> NoRequest]
    /\ txn = [h \in Handlers |-> NoLocals]
    /\ resp = [h \in Handlers |-> NoResponse]
    /\ frames = [t \in Threads |-> NoFrame]
    /\ record = NoRecord
    /\ api = NoApiCalls
    /\ cardcheck = NoCardCall

NextVerifier == Tick \/ Construct \/ VerifyCall \/ ReplayCall \/ ReturnCall

\* a verifier constructed and called directly
SpecVerifier == InitVerifier /\ [][NextVerifier]_vars

InitView ==
    /\ now = ClockStart
    /\ verifier = NoVerifier
    /\ call = IdleCall
    /\ settings \in { [DATATRANS_HMAC_KEY |-> k] : k \in SettingsKeys }
    /\ db = InitialTable
    /\ pc = [h \in Handlers |-> "idle"]
    /\ req = [h \in Handlers |-> NoRequest]
    /\ txn = [h \in Handlers |-> NoLocals]
    /\ resp = [h \in Handlers |-> NoResponse]
    /\ frames = [t \in Threads |-> NoFrame]
    /\ record = NoRecord
    /\ api = NoApiCalls
    /\ cardcheck = NoCardCall

\* the handler that serves the requests of SpecView, one at a time
Serial == "h1"

NextView ==
    \/ Tick
    \/ Receive(Serial, ViewRequests(now))
    \/ FindOrCreate(Serial)
    \/ SaveStatus(Serial)
    \/ SaveFinal(Serial)
    \/ Respond(Serial)

\* webhook_view serving one request after another
SpecView == InitView /\ [][NextView]_vars

InitClient ==
    /\ now = ClockStart
    /\ verifier = NoVerifier
    /\ call = IdleCall
    /\ settings = [DATATRANS_HMAC_KEY |-> Some(ConfiguredKey)]
    /\ db = InitialTable
    /\ pc = [h \in Handlers |-> "idle"]
    /\ req = [h \in Handlers |-> NoRequest]
    /\ txn = [h \in Handlers |-> NoLocals]
    /\ resp = [h \in Handlers |-> NoResponse]
    /\ frames = [t \in Threads |-> NoFrame]
    /\ record = NoRecord
    /\ api = NoApiCalls
    /\ cardcheck = NoCardCall

NextClient ==
    \E c \in Callers :
        ApiRequest(c) \/ ApiNoResponse(c) \/ ApiResponse(c) \/ ApiRead(c) \/ ApiReturn(c)

\* a DatatransClient whose _request is called, one call after another
SpecClient == InitClient /\ [][NextClient]_vars

NextCard == ValidateCall \/ ValidateReturn

\* validate_card_number called on one number after another
SpecCard == InitClient /\ [][NextCard]_vars

InitRecord ==
    /\ now = ClockStart
    /\ verifier = NoVerifier
    /\ call = IdleCall
    /\ settings = [DATATRANS_HMAC_KEY |-> Some(ConfiguredKey)]
    /\ db = InitialTable
    /\ pc = [h \in Handlers |-> "idle"]
    /\ req = [h \in Handlers |-> NoRequest]
    /\ txn = [h \in Handlers |-> NoLocals]
    /\ resp = [h \in Handlers |-> NoResponse]
    /\ frames = [t \in Threads |-> NoFrame]
    /\ record = NoRecord
    /\ api = NoApiCalls
    /\ cardcheck = NoCardCall

NextRecord == Tick \/ LoadRecord \/ UpdateStatusCall \/ ResumeRecord

\* update_status called on instances, one call after another
SpecRecord == InitRecord /\ [][NextRecord]_vars

InitOverlapping ==
    /\ now = ClockStart
    /\ verifier = NoVerifier
    /\ call = IdleCall
    /\ settings = [DATATRANS_HMAC_KEY |-> Some(ConfiguredKey)]
    /\ db = InitialTable
    /\ pc = [h \in Handlers |-> "idle"]
    /\ req = [h \in Handlers |-> NoRequest]
    /\ txn = [h \in Handlers |-> NoLocals]
    /\ resp = [h \in Handlers |-> NoResponse]
    /\ frames = [t \in Threads |-> NoFrame]
    /\ record = NoRecord
    /\ api = NoApiCalls
    /\ cardcheck = NoCardCall

NextOverlapping ==
    \E h \in Handlers :
          \/ Receive(h, OverlappingRequests(now))
          \/ FindOrCreate(h)
          \/ SaveStatus(h)
          \/ SaveFinal(h)
          \/ Respond(h)

\* two handlers (worker threads or processes) running webhook_view on the
\* same table, interleaved query by query, within one reading of the clock
SpecOverlapping == InitOverlapping /\ [][NextOverlapping]_vars

InitConcurrent ==
    /\ now = ClockStart
    /\ verifier = NewVerifier(ConfiguredKey)
    /\ call = IdleCall
    /\ settings = [DATATRANS_HMAC_KEY |-> Some(ConfiguredKey)]
    /\ db = InitialTable
    /\ pc = [h \in Handlers |-> "idle"]
    /\ req = [h \in Handlers |-> NoRequest]
    /\ txn = [h \in Handlers |-> NoLocals]
    /\ resp = [h \in Handlers |-> NoResponse]
    /\ frames = [t \in Threads |-> NoFrame]
    /\ record = NoRecord
    /\ api = NoApiCalls
    /\ cardcheck = NoCardCall

NextConcurrent ==
    \/ Tick
    \/ \E t \in Threads :
          \/ Enter(t)
          \/ StepSplit(t)
          \/ StepScan(t)
          \/ StepMissing(t)
          \/ StepWindow(t)
          \/ StepSign(t)
          \/ StepCompare(t)
          \/ Leave(t)

\* two threads calling verify_signature on one verifier, interleaved
\* statement by statement
SpecConcurrent == InitConcurrent /\ [][NextConcurrent]_vars

(***************************************************************************)
(* Vocabulary of the properties of verify_signature. These definitions     *)
(* read the recorded call (its arguments, the clock reading, its outcome)  *)
(* and state what a header is without going through VerifySignature.       *)
(***************************************************************************)
CallDone == call.state = "returned"

Succeeded == call.outcome.kind = "return" /\ call.outcome.value = TRUE

FailedWith(msg) == call.outcome = WebhookVerificationError(msg)

CommaCount(text) == Cardinality({ i \in 1..Len(text) : text[i] = "," })

\* the timestamps the properties quantify over
ClaimTs == TsValues(call.current_time, call.max_age_seconds)

InsideWindow(ts) == Abs(call.current_time - ts) <= call.max_age_seconds * 1000

\* 't=<decimal(ts)>,s0='
HeaderHead(ts) == PrefixT \o PyStr(ts) \o << "," >> \o PrefixS0

\* hex(HMAC(key, decimal(ts) + payload)) for the recorded call
ExpectedFor(ts) == HmacHexDigest(verifier.hmac_key, Encode(PyStr(ts) \o call.payload))

\* the header is 't=<decimal(ts)>,s0=<some text without a comma>'
HeaderIsFor(ts) == StartsWith(call.header, HeaderHead(ts)) /\ CommaCount(call.header) = 1

\* that text
S0Of(ts) == DropFirst(call.header, Len(HeaderHead(ts)))

\* b is a with exactly one character changed into another hex character
OneHexCharChanged(a, b) ==
    /\ Len(a) = Len(b)
    /\ Cardinality({ i \in 1..Len(a) : a[i] # b[i] }) = 1
    /\ \A i \in 1..Len(b) : IsHexChar(b[i])

CallParts == Split(call.header, ",")

HasPartWith(prefix) == \E i \in 1..Len(CallParts) : StartsWith(CallParts[i], prefix)

\* every part that begins with 't=' continues with text int() accepts
TimestampsParse ==
    \A i \in 1..Len(CallParts) :
        StartsWith(CallParts[i], PrefixT) => PyInt(DropFirst(CallParts[i], 2)).ok

AllDigits(text) == Len(text) > 0 /\ \A i \in 1..Len(text) : IsDigit(text[i])

(***************************************************************************)
(* C1 (as claimed). For every key, payload and integer ts with             *)
(* |now - ts| <= max_age_seconds*1000, verify_signature of the header      *)
(* 't=<ts>,s0=<hex HMAC(key, decimal(ts) + payload)>' returns True.        *)
(* The code rejects ts = 0 as a missing field.                             *)
(***************************************************************************)
C1_InWindowCorrectSignatureSucceeds ==
    \A ts \in ClaimTs :
        (CallDone /\ InsideWindow(ts) /\ call.header = HeaderHead(ts) \o ExpectedFor(ts))
            => Succeeded

(***************************************************************************)
(* C2 (as claimed). For a header 't=<ts>,s0=<sig>' with ts inside the      *)
(* window, the call succeeds only if sig is character for character the    *)
(* expected digest, and a sig that differs from the expected digest in     *)
(* exactly one hex character fails with 'Signature mismatch'.              *)
(***************************************************************************)
C2_OnlyExactSignatureSucceeds ==
    \A ts \in ClaimTs :
        (CallDone /\ InsideWindow(ts) /\ HeaderIsFor(ts))
            => /\ Succeeded => S0Of(ts) = ExpectedFor(ts)
               /\ OneHexCharChanged(ExpectedFor(ts), S0Of(ts)) => FailedWith(MsgMismatch)

(***************************************************************************)
(* C3 (as claimed). For every ts with |now - ts| > max_age_seconds*1000,   *)
(* past or future, a header 't=<ts>,s0=<sig>' fails with 'Signature        *)
(* timestamp too old', whether sig is the correct signature or not.        *)
(***************************************************************************)
C3_OutsideWindowAlwaysTooOld ==
    \A ts \in ClaimTs :
        (CallDone /\ ~InsideWindow(ts) /\ HeaderIsFor(ts)) => FailedWith(MsgTooOld)

(***************************************************************************)
(* C4 (as claimed). Every call of verify_signature either returns True or  *)
(* raises WebhookVerificationError with one of the four reasons; it never  *)
(* returns False and raises no other exception type.                       *)
(***************************************************************************)
C4_OnlyVerificationErrors ==
    CallDone =>
        \/ Succeeded
        \/ \E msg \in { MsgMalformed, MsgMissing, MsgTooOld, MsgMismatch } : FailedWith(msg)

(***************************************************************************)
(* C6. A header with a number of comma-separated parts other than 2 (that  *)
(* is, with no comma or with two or more) fails with 'Invalid signature    *)
(* header format'.                                                         *)
(***************************************************************************)
C6_WrongPartCountIsMalformed ==
    (CallDone /\ CommaCount(call.header) # 1) => FailedWith(MsgMalformed)

\* 'a=1,b=2,c=3' was given and rejected as malformed
C6_Witness ==
    /\ CallDone
    /\ call.header = Join(ThreeJunk, ",")
    /\ FailedWith(MsgMalformed)

(***************************************************************************)
(* C7 (as claimed). A header that lacks a part beginning with 't=' or      *)
(* lacks a part beginning with 's0=' fails with 'Missing timestamp or      *)
(* signature'. The fields are looked for in the two parts of a header that *)
(* has passed the part count ("absent from both parts"); a header of       *)
(* another part count is rejected as malformed before (C6). The code       *)
(* raises the ValueError of int() on a two-part header whose 't=' part is  *)
(* no integer, such as ',t=', which lacks the 's0=' part.                  *)
(***************************************************************************)
C7_LackingFieldIsMissing ==
    (CallDone /\ CommaCount(call.header) = 1
        /\ (~HasPartWith(PrefixT) \/ ~HasPartWith(PrefixS0)))
        => FailedWith(MsgMissing)

(***************************************************************************)
(* C8 (as claimed). A header that is only a timestamp segment,             *)
(* 't=<digits>', fails with 'Missing timestamp or signature'.              *)
(***************************************************************************)
C8_TimestampOnlyIsMissing ==
    (CallDone /\ StartsWith(call.header, PrefixT) /\ AllDigits(DropFirst(call.header, 2)))
        => FailedWith(MsgMissing)

(***************************************************************************)
(* C8 (amended). A header that is only a timestamp segment, 't=<digits>',  *)
(* fails with 'Invalid signature header format': it has one part, and the  *)
(* part count is checked before the fields are looked for.                 *)
(***************************************************************************)
C8_TimestampOnlyIsMalformed ==
    (CallDone /\ StartsWith(call.header, PrefixT) /\ AllDigits(DropFirst(call.header, 2)))
        => FailedWith(MsgMalformed)

\* 't=<the clock reading>' alone was given and rejected as malformed
C8_Witness ==
    /\ CallDone
    /\ call.header = PrefixT \o PyStr(call.current_time)
    /\ FailedWith(MsgMalformed)

(***************************************************************************)
(* C9 (as claimed). Constructing a WebhookVerifier with a key that is not  *)
(* valid hex fails at construction with ConfigurationError.                *)
(* The code lets the ValueError of bytes.fromhex through.                  *)
(***************************************************************************)
C9_BadKeyIsConfigurationError ==
    (verifier.state # "none" /\ ~FromHex(verifier.key_text).ok)
        => (verifier.state = "failed" /\ verifier.raised = "ConfigurationError")

(***************************************************************************)
(* Vocabulary of the properties of webhook_view. They read the request a   *)
(* handler holds, the clock reading at its arrival, its response and the   *)
(* table.                                                                  *)
(***************************************************************************)
Truthy(optText) == optText # None /\ The(optText) # << >>

\* the view got as far as constructing a verifier for this request
VerifierUsed(h) == Truthy(settings.DATATRANS_HMAC_KEY) /\ Truthy(req[h].signature_header)

\* what verify_signature does with the request of handler h when the key
\* is valid hex
VerifyOutcome(h) ==
    VerifySignature(FromHex(The(settings.DATATRANS_HMAC_KEY)).bytes,
                    The(req[h].signature_header), req[h].body, DefaultMaxAge, txn[h].at)

\* WebhookVerifier(...) or verify_signature raises on the request of h
VerifierRaises(h) ==
    /\ VerifierUsed(h)
    /\ \/ ~FromHex(The(settings.DATATRANS_HMAC_KEY)).ok
       \/ VerifyOutcome(h).kind = "raise"

(***************************************************************************)
(* C5. Whenever the construction of the verifier or verify_signature       *)
(* raises, a verification error or any other exception, webhook_view has   *)
(* answered at once, not with 200, and has created and modified no row.    *)
(***************************************************************************)
C5_FailsClosed ==
    \A h \in Handlers :
        (pc[h] # "idle" /\ VerifierRaises(h))
            => /\ pc[h] = "done"
               /\ resp[h].status # 200
               /\ txn[h].saves = 0
               /\ db = txn[h].db_before

\* a request whose timestamp is no integer made int() raise ValueError, and
\* was answered 500 with the table as it was
C5_Witness ==
    \E h \in Handlers :
        /\ pc[h] = "done"
        /\ VerifierRaises(h)
        /\ VerifyOutcome(h).exc = "ValueError"
        /\ resp[h].status = 500
        /\ db = txn[h].db_before

(***************************************************************************)
(* C10 (as claimed). With the key configured, webhook_view answers 400 to  *)
(* every request whose Datatrans-Signature header is missing, or is        *)
(* rejected by verify_signature as malformed, lacking a field, outside the *)
(* window or mismatching. The code answers 500 to all but the missing      *)
(* header.                                                                 *)
(***************************************************************************)
C10_VerificationFailureIs400 ==
    \A h \in Handlers :
        (/\ pc[h] = "done"
         /\ Truthy(settings.DATATRANS_HMAC_KEY)
         /\ FromHex(The(settings.DATATRANS_HMAC_KEY)).ok
         /\ \/ ~Truthy(req[h].signature_header)
            \/ VerifyOutcome(h).exc = "WebhookVerificationError")
            => resp[h].status = 400

\* verify_signature returns True on the request of handler h
Verifies(h) ==
    /\ VerifierUsed(h)
    /\ FromHex(The(settings.DATATRANS_HMAC_KEY)).ok
    /\ VerifyOutcome(h).kind = "return"

\* the body of the request of h is no JSON document
BodyNotJson(h) == JsonLoads(req[h].body).t = "invalid"

\* the body of the request of h is a JSON object without a transactionId
BodyLacksTransactionId(h) ==
    /\ JsonLoads(req[h].body).t = "obj"
    /\ ~HasKey(JsonLoads(req[h].body), "transactionId")

(***************************************************************************)
(* C11 (as claimed). webhook_view answers 400, and changes no stored       *)
(* record, to every request whose signature verifies and whose body is not *)
(* valid JSON or is a JSON object without a transactionId. The code        *)
(* answers 500 to a body that is not valid JSON.                           *)
(***************************************************************************)
C11_MalformedPayloadIs400 ==
    \A h \in Handlers :
        (pc[h] = "done" /\ Verifies(h) /\ (BodyNotJson(h) \/ BodyLacksTransactionId(h)))
            => (resp[h].status = 400 /\ db = txn[h].db_before)

\* the view has gone past the verification of the request of h: json.loads
\* was called, or a row was looked up or saved
PastVerification(h) ==
    \/ txn[h].parsed
    \/ pc[h] \in { "get", "save_status", "save_final" }
    \/ txn[h].saves > 0
    \/ db # txn[h].db_before

(***************************************************************************)
(* C12. In a run of webhook_view verify_signature is called at most once,  *)
(* and whenever the body has been handed to json.loads, or a row has been  *)
(* looked up or saved, that one call was made and verify_signature returns *)
(* True on the body and the header as received.                            *)
(***************************************************************************)
C12_VerifiedOnceBeforeParsing ==
    \A h \in Handlers :
        pc[h] # "idle"
            => /\ txn[h].verify_calls <= 1
               /\ PastVerification(h) => (txn[h].verify_calls = 1 /\ Verifies(h))

\* a verified request has been parsed and its row saved once, with the
\* second save still to come
C12_Witness ==
    \E h \in Handlers :
        /\ pc[h] = "save_final"
        /\ txn[h].parsed
        /\ txn[h].saves = 1
        /\ txn[h].verify_calls = 1
        /\ Verifies(h)

(***************************************************************************)
(* Further vocabulary of the properties of verify_signature.               *)
(***************************************************************************)
\* the header is two parts, one 't=...' and the other 's0=...'
TwoFieldHeader ==
    /\ Len(CallParts) = 2
    /\ \/ StartsWith(CallParts[1], PrefixT) /\ StartsWith(CallParts[2], PrefixS0)
       \/ StartsWith(CallParts[1], PrefixS0) /\ StartsWith(CallParts[2], PrefixT)

\* the header of the call with its two parts swapped
SwappedHeader == CallParts[2] \o << "," >> \o CallParts[1]

(***************************************************************************)
(* C13. For a header of a 't=' part and an 's0=' part, in either order,    *)
(* the call has the outcome that verify_signature gives, for the same key, *)
(* payload, max age and clock reading, to the header with the two parts    *)
(* swapped: the same success or the same failure.                          *)
(***************************************************************************)
C13_PartOrderInsignificant ==
    (CallDone /\ TwoFieldHeader)
        => call.outcome = VerifySignature(verifier.hmac_key, SwappedHeader, call.payload,
                                          call.max_age_seconds, call.current_time)

\* 's0=<correct>,t=<the clock reading>', the signature first, was accepted
C13_Witness ==
    /\ CallDone
    /\ call.header = PrefixS0 \o ExpectedFor(call.current_time) \o << "," >>
                        \o PrefixT \o PyStr(call.current_time)
    /\ Succeeded

\* the texts after 't=' and 's0=' of a header 't=<text>,s0=<text>'
TsTextOf(header) == DropFirst(Split(header, ",")[1], 2)

SigTextOf(header) == DropFirst(Split(header, ",")[2], 3)

\* the call is done on a header 't=<text>,s0=<sig>' whose text is a
\* non-canonical spelling of an integer inside the window
NonCanonicalCall ==
    /\ CallDone
    /\ Len(CallParts) = 2
    /\ StartsWith(CallParts[1], PrefixT)
    /\ StartsWith(CallParts[2], PrefixS0)
    /\ PyInt(TsTextOf(call.header)).ok
    /\ TsTextOf(call.header) # PyStr(PyInt(TsTextOf(call.header)).val)
    /\ InsideWindow(PyInt(TsTextOf(call.header)).val)

\* hex(HMAC(key, <the text as sent> + payload)) for the recorded call
SignatureOverText ==
    HmacHexDigest(verifier.hmac_key, Encode(TsTextOf(call.header) \o call.payload))

(***************************************************************************)
(* C14 (as claimed). A header whose 't=' text is a non-canonical spelling  *)
(* of an integer n inside the window is accepted exactly when s0 is the    *)
(* hex HMAC over decimal(n) + payload, and is rejected with 'Signature     *)
(* mismatch' when s0 is the hex HMAC over the text as sent + payload (and  *)
(* the two digests differ). The code rejects the spelling '00' of 0 as a   *)
(* missing field whatever s0 is.                                           *)
(***************************************************************************)
C14_SignatureOverDecimalForm ==
    NonCanonicalCall
        => /\ Succeeded <=> SigTextOf(call.header) = ExpectedFor(PyInt(TsTextOf(call.header)).val)
           /\ (/\ SigTextOf(call.header) = SignatureOverText
               /\ SignatureOverText # ExpectedFor(PyInt(TsTextOf(call.header)).val))
                  => FailedWith(MsgMismatch)

\* the timestamp of a two-part header with one 't=' part that int() accepts
TsOfHeader(header) ==
    LET parts == Split(header, ",")
        i == CHOOSE i \in 1..Len(parts) : StartsWith(parts[i], PrefixT)
    IN  PyInt(DropFirst(parts[i], 2)).val

\* this step is a call of verify_signature
VerifyStep == call'.state = "returned" /\ call' # call

\* this step hands the arguments of the call before it to verify_signature
\* once more
ReplayStep == VerifyStep /\ call.state = "returned" /\ call'.replayed

(***************************************************************************)
(* C15. A call of verify_signature leaves the attributes of the verifier   *)
(* as they were. A call that repeats the arguments of the call before it   *)
(* at the same clock reading has the same outcome, and one that repeats an *)
(* accepted call at a clock reading at which the timestamp is still inside *)
(* the window is accepted again.                                           *)
(***************************************************************************)
C15_NoMemoryOfEarlierCalls ==
    [][ /\ VerifyStep => verifier' = verifier
        /\ (ReplayStep /\ call'.current_time = call.current_time)
              => call'.outcome = call.outcome
        /\ (/\ ReplayStep
            /\ call.outcome.kind = "return"
            /\ Abs(call'.current_time - TsOfHeader(call.header))
                  <= call.max_age_seconds * 1000)
              => call'.outcome = Returned(TRUE)
      ]_vars

\* a header stamped with the first clock reading was accepted again when
\* it was handed in once more later
C15_Witness ==
    /\ CallDone
    /\ call.replayed
    /\ call.header = HeaderHead(ClockStart) \o ExpectedFor(ClockStart)
    /\ call.current_time > ClockStart
    /\ Succeeded

\* what verify_signature gives, run alone, for the arguments of thread t at
\* the clock reading t took
AloneOutcome(t) ==
    VerifySignature(FromHex(verifier.key_text).bytes, frames[t].signature_header,
                    frames[t].payload, frames[t].max_age_seconds, frames[t].current_time)

(***************************************************************************)
(* C16. With two threads calling verify_signature on one verifier, under   *)
(* every interleaving of their statements and of the clock, the key of the *)
(* verifier stays the decoded key it was constructed with, and every       *)
(* finished call has the outcome verify_signature gives, run alone, for    *)
(* the same arguments and clock reading.                                   *)
(***************************************************************************)
C16_ConcurrentCallsAsIfAlone ==
    /\ verifier.state = "constructed" => verifier.hmac_key = FromHex(verifier.key_text).bytes
    /\ \A t \in Threads : frames[t].pc = "done" => frames[t].outcome = AloneOutcome(t)

\* one call was accepted while the other, on another header and with
\* another clock reading, is still between its statements
C16_Witness ==
    \E t \in Threads, u \in Threads :
        /\ t # u
        /\ frames[t].pc = "done"
        /\ frames[t].outcome = Returned(TRUE)
        /\ frames[u].pc \in { "sign", "compare" }
        /\ frames[u].signature_header # frames[t].signature_header
        /\ frames[u].current_time # frames[t].current_time

\* the run of handler h ended before its first query, in a failure
HeadFailed(h) ==
    /\ pc[h] = "done"
    /\ resp[h].status # 200
    /\ txn[h].data.t = "null" \/ resp[h].text = "Invalid payload"

\* the failure a run ended in: the exception caught and where (at the
\* construction, in verify_signature, after it), with the reason of a
\* WebhookVerificationError, or the error answered without an exception
FailureReason(caught, verify_calls, parsed, message, response) ==
    << caught, verify_calls, parsed,
       IF caught = "" THEN << Lit(response.text) >>
       ELSE IF caught = "WebhookVerificationError" THEN message
       ELSE << >> >>

(***************************************************************************)
(* C18 (as claimed). Take a run of webhook_view that ended in a failure    *)
(* before its first query, and the run on the same request at the same     *)
(* clock reading with any other value of DATATRANS_HMAC_KEY. If both end   *)
(* in the same failure reason, then the error message, the logged lines    *)
(* and the response are the same in both. The code logs str(e) of the      *)
(* ValueError of bytes.fromhex, which names the position of the first      *)
(* character of the key that is no hex digit.                              *)
(***************************************************************************)
C18_KeyNotObservable ==
    \A h \in Handlers, k \in SettingsKeys :
        LET other == ViewHead(k, req[h], txn[h].at)
        IN  (/\ HeadFailed(h)
             /\ other.resp # NoResponse
             /\ FailureReason(other.caught, other.verify_calls, other.parsed,
                              other.message, other.resp)
                  = FailureReason(txn[h].caught, txn[h].verify_calls, txn[h].parsed,
                                  txn[h].message, resp[h]))
                => /\ other.message = txn[h].message
                   /\ other.log = txn[h].log
                   /\ other.resp = resp[h]

(***************************************************************************)
(* C19 (as claimed). For a header of exactly two parts (whose 't=' parts   *)
(* are integers), the call fails with 'Missing timestamp or signature' if  *)
(* and only if no part begins with 't=' or no part begins with 's0='. The  *)
(* code also rejects as missing a timestamp of 0 and an empty s0 value.    *)
(***************************************************************************)
C19_MissingIffPrefixAbsent ==
    (CallDone /\ Len(CallParts) = 2 /\ TimestampsParse)
        => (FailedWith(MsgMissing) <=> (~HasPartWith(PrefixT) \/ ~HasPartWith(PrefixS0)))

\* the part of the header of the call that begins with prefix, without it
FieldText(prefix) ==
    LET i == CHOOSE i \in 1..Len(CallParts) : StartsWith(CallParts[i], prefix)
    IN  DropFirst(CallParts[i], Len(prefix))

\* the four checks of verify_signature, each stated on the header of the call
PartCountFails == CommaCount(call.header) # 1

FieldCheckFails ==
    \/ ~HasPartWith(PrefixT)
    \/ ~HasPartWith(PrefixS0)
    \/ FieldText(PrefixS0) = << >>
    \/ PyInt(FieldText(PrefixT)).ok /\ PyInt(FieldText(PrefixT)).val = 0

WindowCheckFails ==
    Abs(call.current_time - PyInt(FieldText(PrefixT)).val) > call.max_age_seconds * 1000

SignatureCheckFails ==
    FieldText(PrefixS0) # ExpectedFor(PyInt(FieldText(PrefixT)).val)

(***************************************************************************)
(* C20 (as claimed). The failure a call reports is that of the first check *)
(* that fails, in the order part count, missing field, timestamp window,   *)
(* signature. The code raises the ValueError of int() during the scan of   *)
(* the parts, before the missing-field check is made.                      *)
(***************************************************************************)
C20_FirstFailingCheckReported ==
    CallDone
        => /\ PartCountFails => FailedWith(MsgMalformed)
           /\ (~PartCountFails /\ FieldCheckFails) => FailedWith(MsgMissing)
           /\ (~PartCountFails /\ ~FieldCheckFails /\ TimestampsParse /\ WindowCheckFails)
                 => FailedWith(MsgTooOld)
           /\ (/\ ~PartCountFails /\ ~FieldCheckFails /\ TimestampsParse
               /\ ~WindowCheckFails /\ SignatureCheckFails
               /\ IsAscii(FieldText(PrefixS0)))
                 => FailedWith(MsgMismatch)

\* the distance of ts from the clock reading of the call, and the width of
\* the window, in milliseconds
Age(ts) == Abs(call.current_time - ts)

WindowMs == call.max_age_seconds * 1000

\* the call is done on 't=<decimal(ts)>,s0=<hex HMAC(key, decimal(ts) + payload)>'
CorrectlySignedFor(ts) == CallDone /\ call.header = HeaderHead(ts) \o ExpectedFor(ts)

(***************************************************************************)
(* C21 (as claimed). For every non-negative max_age_seconds, a correctly   *)
(* signed header whose timestamp has |now - ts| = max_age_seconds*1000 is  *)
(* accepted, and one whose timestamp has                                   *)
(* |now - ts| = max_age_seconds*1000 + 1 fails with 'Signature timestamp   *)
(* too old'. The code rejects the timestamp 0 on the edge of the window as *)
(* a missing field.                                                        *)
(***************************************************************************)
C21_WindowBoundInclusive ==
    \A ts \in ClaimTs :
        /\ (CorrectlySignedFor(ts) /\ Age(ts) = WindowMs) => Succeeded
        /\ (CorrectlySignedFor(ts) /\ Age(ts) = WindowMs + 1) => FailedWith(MsgTooOld)

(***************************************************************************)
(* Vocabulary of the properties of the stored records.                     *)
(***************************************************************************)
\* the parsed payload of a verified request that names a transaction and
\* carries a status
CarriesStatus(h) ==
    /\ pc[h] # "idle"
    /\ txn[h].data.t = "obj"
    /\ ~Falsy(DictGet(txn[h].data, "transactionId", JNull))
    /\ ~Falsy(DictGet(txn[h].data, "status", JNull))

\* the transactionId of the payload of h
PayloadTxnId(h) == DictGet(txn[h].data, "transactionId", JNull).v

\* the row stored under the transactionId of the payload of h
StoredRow(h) == The(db[PayloadTxnId(h)])

HasStoredRow(h) == PayloadTxnId(h) \in DOMAIN db /\ db[PayloadTxnId(h)] # None

\* the field of the row is the member of the payload, when the payload has it
FieldFromPayload(data, key, stored) == HasKey(data, key) => stored = data.v[key]

\* the row carries the status, the webhook data, the amount, the currency,
\* the payment method and the masked card of the payload
RowCarriesPayload(row, data) ==
    /\ row.status = data.v["status"]
    /\ row.webhook_data = data
    /\ FieldFromPayload(data, "amount", row.amount)
    /\ FieldFromPayload(data, "currency", row.currency)
    /\ FieldFromPayload(data, "paymentMethod", row.payment_method)
    /\ (HasKey(data, "card") /\ data.v["card"].t = "obj")
          => row.masked_card = DictGet(data.v["card"], "masked", JNull)
    /\ (HasKey(data, "card") /\ data.v["card"].t # "obj") => FALSE

(***************************************************************************)
(* C22 (as claimed). Applying a verified webhook that carries a status is  *)
(* all-or-nothing: when the handler has answered 200 the stored record     *)
(* carries the payload's status, webhook data, amount, currency, payment   *)
(* method and masked card; when it has answered an error the table is as   *)
(* it was; and at no moment does the table differ from what it was without *)
(* the record carrying all of them. The code saves the status inside       *)
(* update_status before it sets the other fields and saves again.          *)
(***************************************************************************)
C22_AllOrNothing ==
    \A h \in Handlers :
        CarriesStatus(h)
            => /\ (pc[h] = "done" /\ resp[h].status = 200)
                    => (HasStoredRow(h) /\ RowCarriesPayload(StoredRow(h), txn[h].data))
               /\ (pc[h] = "done" /\ resp[h].status # 200) => db = txn[h].db_before
               /\ db # txn[h].db_before
                    => (HasStoredRow(h) /\ RowCarriesPayload(StoredRow(h), txn[h].data))

\* the request of h verified, its payload names a transaction that had no
\* stored record when it arrived, and carries a status, an amount and a currency
NewTransactionWithStatus(h) ==
    /\ CarriesStatus(h)
    /\ txn[h].db_before[PayloadTxnId(h)] = None
    /\ HasKey(txn[h].data, "amount")
    /\ HasKey(txn[h].data, "currency")

(***************************************************************************)
(* C23 (as claimed). When a verified webhook names a transactionId without *)
(* a stored record and carries a status, an amount and a currency, the     *)
(* view answers 200 and has stored a record for that id with the status,   *)
(* the amount and the currency of the payload. The code saves the new      *)
(* instance inside update_status while its amount is still NULL; the       *)
(* column is NOT NULL, the save raises and the view answers 500.           *)
(***************************************************************************)
C23_UnknownTransactionCreated ==
    \A h \in Handlers :
        (pc[h] = "done" /\ NewTransactionWithStatus(h))
            => /\ resp[h].status = 200
               /\ HasStoredRow(h)
               /\ StoredRow(h).status = txn[h].data.v["status"]
               /\ StoredRow(h).amount = txn[h].data.v["amount"]
               /\ StoredRow(h).currency = txn[h].data.v["currency"]

\* handler h has answered 200 to a verified webhook with this status for
\* the transaction id
Applied(h, id, status) ==
    /\ pc[h] = "done"
    /\ resp[h].status = 200
    /\ CarriesStatus(h)
    /\ PayloadTxnId(h) = id
    /\ txn[h].data.v["status"] = JStr(status)

(***************************************************************************)
(* C24 (as claimed). When two handlers have served, at the same time, two  *)
(* verified webhooks on the same stored transaction, one with status       *)
(* 'authorized' and one with status 'settled', and both have answered 200, *)
(* the stored record has both authorized_at and settled_at set. In the     *)
(* code each handler saves every column of the instance it read, so the    *)
(* later save puts back the empty timestamp its instance was read with.    *)
(***************************************************************************)
C24_NoLostUpdate ==
    \A g \in Handlers, h \in Handlers, id \in TxnIds :
        (g # h /\ Applied(g, id, "authorized") /\ Applied(h, id, "settled"))
            => /\ The(db[id]).authorized_at # None
               /\ The(db[id]).settled_at # None

\* this step is a call of update_status
UpdateStatusStep == record.state = "loaded" /\ record'.state = "updated"

\* equality of two JSON values of the model
JsonEq(a, b) == a.t = b.t /\ (a.t # "null" => a.v = b.v)

(***************************************************************************)
(* C25. A call update_status(new_status, data) sets status to new_status;  *)
(* sets authorized_at when and only when new_status is 'authorized', and   *)
(* settled_at when and only when new_status is 'settled', leaving the      *)
(* other timestamp as it was; replaces webhook_data when and only when     *)
(* data is non-empty; so that no call clears an authorized_at or           *)
(* settled_at that was set.                                                *)
(***************************************************************************)
C25_UpdateStatusFrame ==
    [][ UpdateStatusStep
          => LET old == record.instance
                 new == record'.instance
                 new_status == record'.new_status
                 data == record'.data
             IN  /\ new.status = new_status
                 /\ new.authorized_at = IF new_status = JStr("authorized") THEN Some(now)
                                        ELSE old.authorized_at
                 /\ new.settled_at = IF new_status = JStr("settled") THEN Some(now)
                                     ELSE old.settled_at
                 /\ JsonEq(new.webhook_data, IF Falsy(data) THEN old.webhook_data ELSE data)
                 /\ old.authorized_at # None => new.authorized_at # None
                 /\ old.settled_at # None => new.settled_at # None
      ]_vars

\* a stored instance authorized earlier has been settled later, without
\* data: it keeps the earlier authorized_at and the webhook data it had
C25_Witness ==
    /\ record.state = "updated"
    /\ record.raised = ""
    /\ record.new_status = JStr("settled")
    /\ Falsy(record.data)
    /\ record.instance.authorized_at # None
    /\ record.instance.settled_at = Some(now)
    /\ The(record.instance.authorized_at) < now
    /\ record.instance.webhook_data.t = "obj"

\* the timestamp signed in the Datatrans-Signature header of the request of h
SignedTimestamp(h) == TsOfHeader(The(req[h].signature_header))

\* the row of the transaction of the payload of h as it was stored when the
\* request arrived
RowBefore(h) == The(txn[h].db_before[PayloadTxnId(h)])

(***************************************************************************)
(* C26. Whenever the view has answered 200 to a webhook that carried a     *)
(* status, the stored status is the status of that payload, whatever the   *)
(* status stored before and whether the signed timestamp is older or newer *)
(* than the webhooks applied before: the webhook processed last wins.      *)
(***************************************************************************)
C26_LastProcessedWins ==
    \A h \in Handlers :
        (pc[h] = "done" /\ resp[h].status = 200 /\ CarriesStatus(h))
            => (HasStoredRow(h) /\ StoredRow(h).status = txn[h].data.v["status"])

\* a webhook 'authorized', signed with a timestamp older than the moment
\* the transaction was settled, was answered 200 and the record, 'settled'
\* before, is 'authorized'
C26_Witness ==
    \E h \in Handlers :
        /\ pc[h] = "done"
        /\ resp[h].status = 200
        /\ CarriesStatus(h)
        /\ txn[h].data.v["status"] = JStr("authorized")
        /\ RowBefore(h).status = JStr("settled")
        /\ SignedTimestamp(h) < The(RowBefore(h).settled_at)
        /\ StoredRow(h).status = JStr("authorized")

\* the request of h verified and its payload names a transaction and has
\* no status, or an empty one
WithoutStatus(h) ==
    /\ pc[h] # "idle"
    /\ Verifies(h)
    /\ txn[h].data.t = "obj"
    /\ ~Falsy(DictGet(txn[h].data, "transactionId", JNull))
    /\ Falsy(DictGet(txn[h].data, "status", JNull))

(***************************************************************************)
(* C27. When a verified payload has a transactionId and no status (absent  *)
(* or empty), the view answers 200 and has created and modified no stored  *)
(* record, also when no record is stored for the transactionId.            *)
(***************************************************************************)
C27_NoStatusNoWrite ==
    \A h \in Handlers :
        WithoutStatus(h)
            => /\ db = txn[h].db_before
               /\ txn[h].saves = 0
               /\ pc[h] \in { "get", "done" }
               /\ pc[h] = "done" => resp[h] = ResponseReceived

\* a verified payload without status for a transaction that is not stored
\* was answered 200, and there is still no record for it
C27_Witness ==
    \E h \in Handlers :
        /\ pc[h] = "done"
        /\ WithoutStatus(h)
        /\ ~HasKey(txn[h].data, "status")
        /\ txn[h].db_before[PayloadTxnId(h)] = None
        /\ resp[h].status = 200
        /\ db[PayloadTxnId(h)] = None

(***************************************************************************)
(* Vocabulary of the properties of DatatransClient._request.               *)
(***************************************************************************)
ApiDone(c) == api[c].state = "done"

\* the request has been handed to urlopen
ApiSent(c) == api[c].state \in { "sent", "reading", "done" }

\* an HTTP status line arrived in the exchange
StatusReceived(c) == api[c].exchange.kind \in { "response", "HTTPError", "IncompleteRead" }

\* the exchange failed: no response arrived, or one with an error status,
\* or the reading of it broke
ExchangeFailed(c) ==
    \/ ~StatusReceived(c)
    \/ api[c].exchange.status >= 400
    \/ api[c].exchange.kind = "IncompleteRead"

RaisedDatatransError(c) ==
    api[c].outcome.kind = "raise" /\ api[c].outcome.exc = "DatatransError"

(***************************************************************************)
(* C28 (as claimed). _request raises DatatransError for every failure of   *)
(* the HTTP exchange; whenever a response with a status >= 400 arrived the *)
(* error's status_code is that status; and status_code is 0 only when no   *)
(* HTTP status arrived. In the code an exception raised while the body of  *)
(* an HTTPError is read or decoded leaves _request as it is, and one       *)
(* raised while the body of a 2xx response is read or decoded gives        *)
(* status_code 0.                                                          *)
(***************************************************************************)
C28_FailuresAreDatatransErrors ==
    \A c \in Callers :
        ApiDone(c)
            => /\ ExchangeFailed(c) => RaisedDatatransError(c)
               /\ (StatusReceived(c) /\ api[c].exchange.status >= 400)
                     => (/\ RaisedDatatransError(c)
                         /\ api[c].outcome.status_code = api[c].exchange.status)
               /\ (RaisedDatatransError(c) /\ api[c].outcome.status_code = 0)
                     => ~StatusReceived(c)

\* the method is POST in some spelling of upper and lower case
PostAnyCase(method) ==
    /\ Len(method) = 4
    /\ method[1] \in { "P", "p" }
    /\ method[2] \in { "O", "o" }
    /\ method[3] \in { "S", "s" }
    /\ method[4] \in { "T", "t" }

\* a non-empty idempotency_key was given
KeyGiven(c) == api[c].idempotency_key # None /\ The(api[c].idempotency_key) # ""

Sends(c, name) == name \in DOMAIN api[c].headers

(***************************************************************************)
(* C29. The request _request builds carries an Idempotency-Key header,     *)
(* with the key given, if and only if a non-empty idempotency_key was      *)
(* given and the method is POST in any spelling of case; a request sent as *)
(* GET, DELETE or PATCH never carries it; and every request carries        *)
(* Authorization, Content-Type and User-Agent. This holds for each caller  *)
(* from the moment its request is handed to urlopen, whatever the other    *)
(* caller does meanwhile.                                                  *)
(***************************************************************************)
C29_IdempotencyKeyOnlyOnPost ==
    \A c \in Callers :
        ApiSent(c)
            => /\ Sends(c, "Idempotency-Key") <=> (KeyGiven(c) /\ PostAnyCase(api[c].method))
               /\ Sends(c, "Idempotency-Key")
                     => api[c].headers["Idempotency-Key"] = The(api[c].idempotency_key)
               /\ api[c].sent_method \in { << "G", "E", "T" >>, << "D", "E", "L", "E", "T", "E" >>,
                                           << "P", "A", "T", "C", "H" >> }
                     => ~Sends(c, "Idempotency-Key")
               /\ Sends(c, "Authorization") /\ Sends(c, "Content-Type") /\ Sends(c, "User-Agent")
               /\ api[c].headers["Authorization"] = AuthHeader

\* 'post' with the key 'k1' was sent as POST with Idempotency-Key: k1, and
\* its body was still outstanding when the other caller's request, a GET
\* with the same key and without the header, was answered
C29_Witness ==
    /\ api["c1"].state = "reading"
    /\ api["c1"].method = << "p", "o", "s", "t" >>
    /\ api["c1"].sent_method = << "P", "O", "S", "T" >>
    /\ api["c1"].idempotency_key = Some("k1")
    /\ Sends("c1", "Idempotency-Key")
    /\ api["c1"].headers["Idempotency-Key"] = "k1"
    /\ ApiDone("c2")
    /\ api["c2"].sent_method = << "G", "E", "T" >>
    /\ api["c2"].idempotency_key = Some("k1")
    /\ ~Sends("c2", "Idempotency-Key")

\* a decimal digit and its value
DecimalDigit(c) == c \in { "0", "1", "2", "3", "4", "5", "6", "7", "8", "9", ArabicZero }

DecimalValue(c) == IF c = ArabicZero THEN 0 ELSE DigitVal[c]

\* the contribution of the k-th digit counted from the right (k = 1 is the
\* last): every second one doubled, less 9 when the double exceeds 9
LuhnTerm(c, k) ==
    LET d == DecimalValue(c)
    IN  IF k % 2 = 0 THEN (IF 2 * d > 9 THEN 2 * d - 9 ELSE 2 * d) ELSE d

RECURSIVE LuhnSumFrom(_, _)
LuhnSumFrom(number, k) ==
    IF k > Len(number) THEN 0
    ELSE LuhnTerm(number[Len(number) + 1 - k], k) + LuhnSumFrom(number, k + 1)

LuhnValid(number) ==
    /\ number # << >>
    /\ \A i \in 1..Len(number) : DecimalDigit(number[i])
    /\ LuhnSumFrom(number, 1) % 10 = 0

CardDone == cardcheck.state = "done"

(***************************************************************************)
(* C30. validate_card_number accepts a string if and only if it is         *)
(* non-empty, made of decimal digits only, and its Luhn sum (every second  *)
(* digit from the right doubled, less 9 when the double exceeds 9) is 0    *)
(* modulo 10; every other input raises ValidationError.                    *)
(***************************************************************************)
C30_LuhnAcceptance ==
    CardDone
        => IF LuhnValid(cardcheck.number)
           THEN cardcheck.outcome = Returned("None")
           ELSE /\ cardcheck.outcome.kind = "raise"
                /\ cardcheck.outcome.exc = "ValidationError"

====
